---- MODULE Spec2Model ----
(***************************************************************************)
(* Model of the stream-session correlation and timeout-detection engine    *)
(* of mp-mock: M3u8Handler (playlist ingest, deadline evaluation),         *)
(* SegmentHandler (segment correlation) and parseM3u8.                     *)
(*                                                                         *)
(* Strings are sequences of one-character strings, so that split, strip    *)
(* of the extension, prefix tests and number formatting are computed as    *)
(* the code computes them.  Timestamps are in clock ticks of one second.   *)
(***************************************************************************)
EXTENDS Integers, Sequences, FiniteSets, TLC

VARIABLES tracker, timers, storage, clock, response, fetching, running

vars == <<tracker, timers, storage, clock, response, fetching, running>>

(***************************************************************************)
(* Bounds of the model.                                                    *)
(***************************************************************************)
MaxClock == 2
MaxRevisions == 2
MaxIntervals == 2
MaxInflight == 1

(***************************************************************************)
(* Values of the optional fields and of failed number parses.              *)
(***************************************************************************)
undefined == -1
NaN == -2

(***************************************************************************)
(* String helpers (JavaScript String methods used by the handlers).        *)
(***************************************************************************)
StartsWith(s, p) == Len(p) <= Len(s) /\ SubSeq(s, 1, Len(p)) = p

EndsWith(s, p) == Len(p) <= Len(s) /\ SubSeq(s, Len(s) - Len(p) + 1, Len(s)) = p

Includes(s, c) == \E i \in 1..Len(s) : s[i] = c

LastIndexOf(s, c) ==
    IF Includes(s, c) THEN CHOOSE i \in 1..Len(s) : s[i] = c /\ \A j \in (i+1)..Len(s) : s[j] # c
    ELSE 0

IndexOf(s, c) ==
    IF Includes(s, c) THEN CHOOSE i \in 1..Len(s) : s[i] = c /\ \A j \in 1..(i-1) : s[j] # c
    ELSE 0

\* s.replace(/\.[^.]+$/, ''): drops the last dot and what follows it, when
\* at least one character follows it.
StripExt(s) ==
    LET d == LastIndexOf(s, ".")
    IN  IF d > 0 /\ d < Len(s) THEN SubSeq(s, 1, d - 1) ELSE s

RECURSIVE Split(_, _)
Split(s, c) ==
    LET i == IndexOf(s, c)
    IN  IF i = 0 THEN <<s>>
        ELSE <<SubSeq(s, 1, i - 1)>> \o Split(SubSeq(s, i + 1, Len(s)), c)

RECURSIVE Join(_, _)
Join(parts, c) ==
    IF Len(parts) = 0 THEN <<>>
    ELSE IF Len(parts) = 1 THEN parts[1]
    ELSE parts[1] \o <<c>> \o Join(Tail(parts), c)

RECURSIVE TrimLeft(_)
TrimLeft(s) == IF Len(s) > 0 /\ s[1] = " " THEN TrimLeft(Tail(s)) ELSE s

RECURSIVE TrimRight(_)
TrimRight(s) ==
    IF Len(s) > 0 /\ s[Len(s)] = " " THEN TrimRight(SubSeq(s, 1, Len(s) - 1)) ELSE s

Trim(s) == TrimRight(TrimLeft(s))

Digits == <<"0", "1", "2", "3", "4", "5", "6", "7", "8", "9">>

IsDigit(c) == \E d \in 1..10 : Digits[d] = c

DigitVal(c) == (CHOOSE d \in 1..10 : Digits[d] = c) - 1

RECURSIVE ParseDigits(_, _)
ParseDigits(s, acc) ==
    IF Len(s) > 0 /\ IsDigit(s[1]) THEN ParseDigits(Tail(s), acc * 10 + DigitVal(s[1]))
    ELSE acc

\* parseInt(s, 10) of an unsigned text: the leading digits, NaN without one.
ParseInt(s) ==
    LET t == TrimLeft(s)
    IN  IF Len(t) > 0 /\ IsDigit(t[1]) THEN ParseDigits(t, 0) ELSE NaN

\* parseFloat(s) of the durations of the model, which have no fraction
\* other than ".0": the value of the leading digits.
ParseFloat(s) == ParseInt(s)

RECURSIVE IntToChars(_)
IntToChars(n) ==
    IF n < 10 THEN <<Digits[n + 1]>>
    ELSE IntToChars(n \div 10) \o <<Digits[(n % 10) + 1]>>

\* p.includes('/') ? p.split('/').pop() || p : p
LastPathComponent(p) ==
    IF Includes(p, "/")
    THEN LET parts == Split(p, "/")
             last == parts[Len(parts)]
         IN  IF last # <<>> THEN last ELSE p
    ELSE p

(***************************************************************************)
(* Texts of the program.                                                   *)
(***************************************************************************)
ExtTs == <<".", "t", "s">>

ExtM3u8 == <<".", "m", "3", "u", "8">>

PlaylistM3u8 == <<"p", "l", "a", "y", "l", "i", "s", "t", ".", "m", "3", "u", "8">>

ChannelEndpoint == <<"c", "h", "a", "n", "n", "e", "l">>

TagStreamInf == <<"#", "E", "X", "T", "-", "X", "-", "S", "T", "R", "E", "A", "M", "-", "I", "N", "F", ":">>

TagTargetDuration == <<"#", "E", "X", "T", "-", "X", "-", "T", "A", "R", "G", "E", "T", "D", "U", "R", "A", "T", "I", "O", "N", ":">>

TagExtInf == <<"#", "E", "X", "T", "I", "N", "F", ":">>

(***************************************************************************)
(* Segment maps.  A JavaScript Map keeps insertion order, and the order    *)
(* decides which entry a scan finds first, so a map is a sequence of       *)
(* entries with distinct keys.                                             *)
(***************************************************************************)
MapHas(segs, k) == \E i \in 1..Len(segs) : segs[i].key = k

MapIndex(segs, k) ==
    IF MapHas(segs, k) THEN CHOOSE i \in 1..Len(segs) : segs[i].key = k ELSE 0

\* map.get(k) as a sequence of zero or one entries (undefined is <<>>).
MapGet(segs, k) == IF MapHas(segs, k) THEN <<segs[MapIndex(segs, k)]>> ELSE <<>>

\* map.set(k, v): replaces the value in place, appends a new key.
MapSet(segs, v) ==
    IF MapHas(segs, v.key) THEN [segs EXCEPT ![MapIndex(segs, v.key)] = v]
    ELSE Append(segs, v)

MapKeys(segs) == { segs[i].key : i \in 1..Len(segs) }

(***************************************************************************)
(* parseM3u8.  The content is given as the sequence of its lines, the      *)
(* result of content.split('\n').  The result is null, a thrown error, or  *)
(* the parsed playlist, of which the ingest reads targetDuration,          *)
(* allSegmentsReceived and the key, uri and duration of each segment.      *)
(***************************************************************************)
DefaultTargetDuration == 5

ParsedSegment(key, uri, duration) ==
    [key |-> key, uri |-> uri, duration |-> duration, received |-> FALSE]

\* for (num = lastNum - 5; num <= lastNum + 5; num++) segments.set(`${base}_${num}.ts`, ...)
RECURSIVE AddNumericVariants(_, _, _, _, _, _)
AddNumericVariants(segs, base, info, num, lastNum, hi) ==
    IF num > hi THEN segs
    ELSE IF num # lastNum /\ num >= 0
         THEN AddNumericVariants(
                  MapSet(segs, [info EXCEPT !.key = base \o <<"_">> \o IntToChars(num) \o ExtTs]),
                  base, info, num + 1, lastNum, hi)
         ELSE AddNumericVariants(segs, base, info, num + 1, lastNum, hi)

\* The alternate keys registered for a segment of a MediaPackage v2 playlist.
AddV2Variants(segs, info) ==
    LET rel == info.key
        filenameWithoutExt == StripExt(rel)
        parts == Split(filenameWithoutExt, "_")
        baseNameWithoutNum == Join(SubSeq(parts, 1, Len(parts) - 1), "_")
        lastNum == ParseInt(parts[Len(parts)])
        s1 == IF Len(parts) >= 3 /\ lastNum # NaN
              THEN AddNumericVariants(segs, baseNameWithoutNum, info, lastNum - 5, lastNum, lastNum + 5)
              ELSE segs
        simpleVariant == parts[1] \o ExtTs
        s2 == IF Len(parts) >= 2 /\ simpleVariant # rel
              THEN MapSet(s1, [info EXCEPT !.key = simpleVariant])
              ELSE s1
        mediumVariant == parts[1] \o <<"_">> \o parts[2] \o ExtTs
        s3 == IF Len(parts) >= 3 /\ mediumVariant # rel
              THEN MapSet(s2, [info EXCEPT !.key = mediumVariant])
              ELSE s2
    IN  IF EndsWith(rel, ExtTs) /\ Includes(filenameWithoutExt, "_") THEN s3 ELSE segs

RECURSIVE ParseLines(_, _, _, _, _)
ParseLines(lines, i, targetDuration, segs, isMediaPackageV2) ==
    IF i > Len(lines)
    THEN [kind |-> "ok", targetDuration |-> targetDuration, segments |-> segs]
    ELSE
      LET line == Trim(lines[i])
      IN  IF StartsWith(line, TagStreamInf)
          THEN IF i + 1 > Len(lines)
               THEN [kind |-> "throw"]
               ELSE LET variantUri == Trim(lines[i + 1])
                    IN  ParseLines(lines, i + 2, targetDuration,
                            IF variantUri # <<>>
                            THEN MapSet(segs, ParsedSegment(variantUri, variantUri, targetDuration))
                            ELSE segs,
                            isMediaPackageV2)
          ELSE IF StartsWith(line, TagTargetDuration)
          THEN ParseLines(lines, i + 1, ParseInt(Split(line, ":")[2]), segs, isMediaPackageV2)
          ELSE IF StartsWith(line, TagExtInf)
          THEN LET duration == ParseFloat(Split(Split(line, ":")[2], ",")[1])
                   segmentUri == Trim(lines[i + 1])
               IN  IF i + 1 <= Len(lines) /\ segmentUri # <<>> /\ ~StartsWith(segmentUri, <<"#">>)
                   THEN LET segmentRelativePath == LastPathComponent(segmentUri)
                            segmentInfo == ParsedSegment(segmentRelativePath, segmentRelativePath, duration)
                            s1 == MapSet(segs, segmentInfo)
                        IN  ParseLines(lines, i + 2, targetDuration,
                                IF isMediaPackageV2 THEN AddV2Variants(s1, segmentInfo) ELSE s1,
                                isMediaPackageV2)
                   ELSE ParseLines(lines, i + 1, targetDuration, segs, isMediaPackageV2)
          ELSE ParseLines(lines, i + 1, targetDuration, segs, isMediaPackageV2)

\* The parser that keeps no variant entry: only .ts segments.
parseM3u8DropVariants(content, isMediaPackageV2) ==
    IF ParseLines(content, 1, DefaultTargetDuration, <<>>, isMediaPackageV2).kind = "throw"
    THEN [kind |-> "throw"]
    ELSE IF SelectSeq(ParseLines(content, 1, DefaultTargetDuration, <<>>, isMediaPackageV2).segments,
                      LAMBDA seg : EndsWith(seg.key, ExtTs)) = <<>>
    THEN [kind |-> "null"]
    ELSE [kind |-> "ok",
          targetDuration |-> ParseLines(content, 1, DefaultTargetDuration, <<>>,
                                        isMediaPackageV2).targetDuration,
          segments |-> SelectSeq(ParseLines(content, 1, DefaultTargetDuration, <<>>,
                                            isMediaPackageV2).segments,
                                 LAMBDA seg : EndsWith(seg.key, ExtTs)),
          allSegmentsReceived |-> FALSE]

parseM3u8(content, isMediaPackageV2) ==
    LET r == ParseLines(content, 1, DefaultTargetDuration, <<>>, isMediaPackageV2)
    IN  IF r.kind = "throw" THEN r
        ELSE IF Len(r.segments) = 0 THEN [kind |-> "null"]
        ELSE [kind |-> "ok", targetDuration |-> r.targetDuration, segments |-> r.segments,
              allSegmentsReceived |-> FALSE]

(***************************************************************************)
(* Program constants.                                                      *)
(***************************************************************************)
segmentArrivalTimeoutBufferMs == 0

MsPerTick == 1000

MaxPreviousM3u8Updates == 20

MaxSegmentArrivalIntervals == 20

AddedSegmentDuration == 2

\* JavaScript truthiness of an optional number.
Truthy(n) == n # undefined /\ n # NaN /\ n # 0

(***************************************************************************)
(* M3u8Handler.handlePut: from the request path to the tracking key.       *)
(* A path is [style, rest]: /live/<channelId>/<rest> or                    *)
(* /in/v2/<channelId>/<redundantId>/<rest>.  The tracking key              *)
(* `${channelId}/${baseFilename}.m3u8` is the pair <<channelId,            *)
(* baseFilename>>.                                                         *)
(***************************************************************************)
M3u8Filename(path) ==
    IF path.style = "v2"
    THEN IF path.rest = ChannelEndpoint THEN PlaylistM3u8
         ELSE IF EndsWith(path.rest, ExtM3u8) THEN path.rest
         ELSE PlaylistM3u8
    ELSE IF path.rest = <<>> \/ EndsWith(path.rest, <<"/">>) THEN PlaylistM3u8
         ELSE IF ~Includes(path.rest, ".") THEN path.rest \o ExtM3u8
         ELSE path.rest

M3u8Key(channelId, path) == <<channelId, StripExt(M3u8Filename(path))>>

\* this.streamTracker.get(key) as a sequence of zero or one values.
TrackerGet(trk, key) == IF key \in DOMAIN trk THEN <<trk[key]>> ELSE <<>>

\* The history that is never cut.
PreviousM3u8UpdatesUncapped(existing, now) ==
    IF existing # <<>> THEN <<now>> \o existing[1].previousM3u8Updates ELSE <<now>>

\* [now, ...existing.previousM3u8Updates], cut to 20 entries.
PreviousM3u8Updates(existing, now) ==
    LET all == IF existing # <<>> THEN <<now>> \o existing[1].previousM3u8Updates ELSE <<now>>
    IN  IF Len(all) > MaxPreviousM3u8Updates THEN SubSeq(all, 1, MaxPreviousM3u8Updates) ELSE all

\* The merge that takes every parsed segment as never received.
MergeSegmentFresh(parsedSegment, existingSegment, now) ==
    [key |-> parsedSegment.key,
     uri |-> parsedSegment.uri,
     duration |-> parsedSegment.duration,
     received |-> FALSE,
     receivedAt |-> undefined,
     size |-> undefined,
     firstSeenAt |-> now,
     timeoutOccurred |-> FALSE]

\* The merge that keeps received but stamps the reception with the ingest.
MergeSegmentRestamp(parsedSegment, existingSegment, now) ==
    [key |-> parsedSegment.key,
     uri |-> parsedSegment.uri,
     duration |-> parsedSegment.duration,
     received |-> IF existingSegment # <<>> THEN existingSegment[1].received ELSE FALSE,
     receivedAt |-> IF existingSegment # <<>> /\ existingSegment[1].received THEN now ELSE undefined,
     size |-> IF existingSegment # <<>> THEN existingSegment[1].size ELSE undefined,
     firstSeenAt |-> IF existingSegment # <<>> /\ Truthy(existingSegment[1].firstSeenAt)
                     THEN existingSegment[1].firstSeenAt ELSE now,
     timeoutOccurred |-> IF existingSegment # <<>> THEN existingSegment[1].timeoutOccurred ELSE FALSE]

\* The SegmentInfo stored for a parsed segment: the observed state of the
\* existing entry of the same key is carried forward.
MergeSegment(parsedSegment, existingSegment, now) ==
    [key |-> parsedSegment.key,
     uri |-> parsedSegment.uri,
     duration |-> parsedSegment.duration,
     received |-> IF existingSegment # <<>> THEN existingSegment[1].received ELSE FALSE,
     receivedAt |-> IF existingSegment # <<>> THEN existingSegment[1].receivedAt ELSE undefined,
     size |-> IF existingSegment # <<>> THEN existingSegment[1].size ELSE undefined,
     firstSeenAt |-> IF existingSegment # <<>> /\ Truthy(existingSegment[1].firstSeenAt)
                     THEN existingSegment[1].firstSeenAt ELSE now,
     timeoutOccurred |-> IF existingSegment # <<>> THEN existingSegment[1].timeoutOccurred ELSE FALSE]

\* The merge that keeps the segments of the replaced revision that the new
\* playlist no longer advertises.
RECURSIVE MergeSegmentsKeepDropped(_, _, _, _)
MergeSegmentsKeepDropped(parsedSegments, i, existing, now) ==
    IF i > Len(parsedSegments)
    THEN IF existing # <<>>
         THEN SelectSeq(existing[1].segments, LAMBDA seg : ~MapHas(parsedSegments, seg.key))
         ELSE <<>>
    ELSE <<MergeSegment(parsedSegments[i],
                        IF existing # <<>> THEN MapGet(existing[1].segments, parsedSegments[i].key)
                        ELSE <<>>,
                        now)>>
         \o MergeSegmentsKeepDropped(parsedSegments, i + 1, existing, now)

RECURSIVE MergeSegments(_, _, _, _)
MergeSegments(parsedSegments, i, existing, now) ==
    IF i > Len(parsedSegments) THEN <<>>
    ELSE <<MergeSegment(parsedSegments[i],
                        IF existing # <<>> THEN MapGet(existing[1].segments, parsedSegments[i].key)
                        ELSE <<>>,
                        now)>>
         \o MergeSegments(parsedSegments, i + 1, existing, now)

\* The allSegmentsReceived flag of the new tracking info.
NewAllSegmentsReceived(parsedData, segments) == parsedData.allSegmentsReceived

\* The tracking info whose high-water mark starts again with each revision.
NewTrackingInfoResetMax(channelId, path, parsedData, existing, now) ==
    LET segments == MergeSegments(parsedData.segments, 1, existing, now)
    IN  [m3u8Uri |-> path,
         targetDuration |-> parsedData.targetDuration,
         segments |-> segments,
         allSegmentsReceived |-> NewAllSegmentsReceived(parsedData, segments),
         receivedAt |-> now,
         channelId |-> channelId,
         lastSegmentReceivedTime |->
             IF existing # <<>> /\ Truthy(existing[1].lastSegmentReceivedTime)
             THEN existing[1].lastSegmentReceivedTime ELSE now,
         timeoutId |-> undefined,
         previousM3u8Updates |-> PreviousM3u8Updates(existing, now),
         timeoutEvents |-> IF existing # <<>> THEN existing[1].timeoutEvents ELSE 0,
         successiveTimeouts |-> IF existing # <<>> THEN existing[1].successiveTimeouts ELSE 0,
         maxSuccessiveTimeouts |-> 0,
         segmentArrivalIntervals |-> IF existing # <<>> THEN existing[1].segmentArrivalIntervals ELSE <<>>,
         rev |-> IF existing # <<>> THEN existing[1].rev + 1 ELSE 1]

\* The tracking info whose count of timeouts starts again with each revision.
NewTrackingInfoResetEvents(channelId, path, parsedData, existing, now) ==
    LET segments == MergeSegments(parsedData.segments, 1, existing, now)
    IN  [m3u8Uri |-> path,
         targetDuration |-> parsedData.targetDuration,
         segments |-> segments,
         allSegmentsReceived |-> NewAllSegmentsReceived(parsedData, segments),
         receivedAt |-> now,
         channelId |-> channelId,
         lastSegmentReceivedTime |->
             IF existing # <<>> /\ Truthy(existing[1].lastSegmentReceivedTime)
             THEN existing[1].lastSegmentReceivedTime ELSE now,
         timeoutId |-> undefined,
         previousM3u8Updates |-> PreviousM3u8Updates(existing, now),
         timeoutEvents |-> 0,
         successiveTimeouts |-> IF existing # <<>> THEN existing[1].successiveTimeouts ELSE 0,
         maxSuccessiveTimeouts |-> IF existing # <<>> THEN existing[1].maxSuccessiveTimeouts ELSE 0,
         segmentArrivalIntervals |-> IF existing # <<>> THEN existing[1].segmentArrivalIntervals ELSE <<>>,
         rev |-> IF existing # <<>> THEN existing[1].rev + 1 ELSE 1]

\* The tracking info built for a parsed playlist, before its timer is armed.
\* rev numbers the revisions of a key (the identity of the object).
NewTrackingInfo(channelId, path, parsedData, existing, now) ==
    LET segments == MergeSegments(parsedData.segments, 1, existing, now)
    IN  [m3u8Uri |-> path,
         targetDuration |-> parsedData.targetDuration,
         segments |-> segments,
         allSegmentsReceived |-> NewAllSegmentsReceived(parsedData, segments),
         receivedAt |-> now,
         channelId |-> channelId,
         lastSegmentReceivedTime |->
             IF existing # <<>> /\ Truthy(existing[1].lastSegmentReceivedTime)
             THEN existing[1].lastSegmentReceivedTime ELSE now,
         timeoutId |-> undefined,
         previousM3u8Updates |-> PreviousM3u8Updates(existing, now),
         timeoutEvents |-> IF existing # <<>> THEN existing[1].timeoutEvents ELSE 0,
         successiveTimeouts |-> IF existing # <<>> THEN existing[1].successiveTimeouts ELSE 0,
         maxSuccessiveTimeouts |-> IF existing # <<>> THEN existing[1].maxSuccessiveTimeouts ELSE 0,
         segmentArrivalIntervals |-> IF existing # <<>> THEN existing[1].segmentArrivalIntervals ELSE <<>>,
         rev |-> IF existing # <<>> THEN existing[1].rev + 1 ELSE 1]

(***************************************************************************)
(* Timers.  A pending setTimeout is [id, key, due, rev]: its handle, the   *)
(* key its callback closes over, the tick from which it may fire, and the  *)
(* revision that armed it.  A new handle differs from every handle that is *)
(* pending or still referenced.                                            *)
(***************************************************************************)
\* clearTimeout that cancels nothing.
clearTimeoutNoop(tms, id) == tms

clearTimeout(tms, id) == { t \in tms : t.id # id }

\* The ingest without the cancellation of the timer of the replaced revision.
ClearExistingTimeoutNever(tms, existing) == tms

\* The ingest that cancels every pending timer, of whatever key.
ClearExistingTimeoutOfAllKeys(tms, existing) == {}

\* if (existingTrackingInfo?.timeoutId) clearTimeout(existingTrackingInfo.timeoutId)
ClearExistingTimeout(tms, existing) ==
    IF existing # <<>> /\ existing[1].timeoutId # undefined
    THEN clearTimeout(tms, existing[1].timeoutId)
    ELSE tms

NewTimeoutId(trk, tms) ==
    LET used == { t.id : t \in tms } \cup { trk[k].timeoutId : k \in DOMAIN trk }
    IN  CHOOSE n \in 1..(Cardinality(used) + 1) : n \notin used

\* if (!trackingInfo.allSegmentsReceived && trackingInfo.segments.size > 0)
ShouldSetTimeout(trackingInfo) ==
    ~trackingInfo.allSegmentsReceived /\ Len(trackingInfo.segments) > 0

\* deadline - now = targetDuration * 1000 + buffer, in ticks.
TimeoutDelay(trackingInfo) ==
    (trackingInfo.targetDuration * 1000 + segmentArrivalTimeoutBufferMs) \div MsPerTick

\* The end of handlePut for a built revision: arm its timer when segments
\* are expected, and store it under the key.
ArmAndStore(m3u8Key, info, cleared, now) ==
    IF ShouldSetTimeout(info)
    THEN /\ timers' = cleared \cup
                {[id |-> NewTimeoutId(tracker, cleared), key |-> m3u8Key,
                  due |-> now + TimeoutDelay(info), rev |-> info.rev]}
         /\ tracker' = (m3u8Key :> [info EXCEPT !.timeoutId = NewTimeoutId(tracker, cleared)])
                          @@ tracker
    ELSE /\ timers' = cleared
         /\ tracker' = (m3u8Key :> info) @@ tracker

\* The part of handlePut after the file is stored: a parse error answers
\* 500, null is skipped, a parsed playlist is merged, its old timer
\* cancelled, and the new revision armed and stored.
TrackParsed(channelId, path, m3u8Key, parsedData, existing, now) ==
    IF parsedData.kind = "throw"
    THEN /\ response' = 500
         /\ UNCHANGED <<tracker, timers>>
    ELSE IF parsedData.kind = "null"
    THEN /\ response' = 200
         /\ UNCHANGED <<tracker, timers>>
    ELSE /\ response' = 200
         /\ ArmAndStore(m3u8Key,
                        NewTrackingInfo(channelId, path, parsedData, existing, now),
                        ClearExistingTimeout(timers, existing),
                        now)

\* The part of handlePut after the content is known: store the file, then
\* parse and track.
StoreAndTrack(channelId, path, content, writeOk, now) ==
    IF ~writeOk
    THEN /\ response' = 500
         /\ UNCHANGED <<tracker, timers, storage>>
    ELSE /\ storage' = storage \cup {<<channelId, M3u8Filename(path)>>}
         /\ TrackParsed(channelId, path, M3u8Key(channelId, path),
                        parseM3u8(content, path.style = "v2"),
                        TrackerGet(tracker, M3u8Key(channelId, path)),
                        now)

(***************************************************************************)
(* M3u8Handler.checkSegmentArrival: the evaluation run by a fired timer.   *)
(***************************************************************************)
\* The scan of the segments: every unreceived segment is marked timed out
\* and counted once in timeoutEvents and in successiveTimeouts.
RECURSIVE TimeoutScan(_, _)
TimeoutScan(trackingInfo, i) ==
    IF i > Len(trackingInfo.segments) THEN trackingInfo
    ELSE IF ~trackingInfo.segments[i].received
         THEN LET successive == trackingInfo.successiveTimeouts + 1
              IN  TimeoutScan(
                      [trackingInfo EXCEPT
                          !.segments[i].timeoutOccurred = TRUE,
                          !.timeoutEvents = @ + 1,
                          !.successiveTimeouts = successive,
                          !.maxSuccessiveTimeouts = IF successive > @ THEN successive ELSE @],
                      i + 1)
         ELSE TimeoutScan(trackingInfo, i + 1)

AllReceived(segments) == \A i \in 1..Len(segments) : segments[i].received

\* The evaluation that counts one timeout event and one step of the streak
\* for the whole evaluation.
checkSegmentArrivalOnce(trk, m3u8Key) ==
    IF m3u8Key \notin DOMAIN trk \/ trk[m3u8Key].allSegmentsReceived
    THEN trk
    ELSE LET scanned == TimeoutScan(trk[m3u8Key], 1)
             successive == trk[m3u8Key].successiveTimeouts + 1
             decided == IF AllReceived(trk[m3u8Key].segments)
                        THEN [scanned EXCEPT !.allSegmentsReceived = TRUE,
                                             !.successiveTimeouts = 0]
                        ELSE [scanned EXCEPT
                                 !.timeoutEvents = trk[m3u8Key].timeoutEvents + 1,
                                 !.successiveTimeouts = successive,
                                 !.maxSuccessiveTimeouts =
                                     IF successive > trk[m3u8Key].maxSuccessiveTimeouts
                                     THEN successive
                                     ELSE trk[m3u8Key].maxSuccessiveTimeouts]
         IN  [trk EXCEPT ![m3u8Key] = [decided EXCEPT !.timeoutId = undefined]]

\* The evaluation whose streak counts evaluations: one step for an
\* evaluation that finds a missing segment.
checkSegmentArrivalStreakOnce(trk, m3u8Key) ==
    IF m3u8Key \notin DOMAIN trk \/ trk[m3u8Key].allSegmentsReceived
    THEN trk
    ELSE LET scanned == TimeoutScan(trk[m3u8Key], 1)
             successive == trk[m3u8Key].successiveTimeouts + 1
             decided == IF AllReceived(trk[m3u8Key].segments)
                        THEN [scanned EXCEPT !.allSegmentsReceived = TRUE,
                                             !.successiveTimeouts = 0]
                        ELSE [scanned EXCEPT
                                 !.successiveTimeouts = successive,
                                 !.maxSuccessiveTimeouts =
                                     IF successive > trk[m3u8Key].maxSuccessiveTimeouts
                                     THEN successive
                                     ELSE trk[m3u8Key].maxSuccessiveTimeouts]
         IN  [trk EXCEPT ![m3u8Key] = [decided EXCEPT !.timeoutId = undefined]]

\* The evaluation without the success outcome: a revision found with every
\* segment received is left unmarked.
checkSegmentArrivalNoSuccess(trk, m3u8Key) ==
    IF m3u8Key \notin DOMAIN trk \/ trk[m3u8Key].allSegmentsReceived
    THEN trk
    ELSE [trk EXCEPT ![m3u8Key] = [TimeoutScan(trk[m3u8Key], 1) EXCEPT !.timeoutId = undefined]]

checkSegmentArrival(trk, m3u8Key) ==
    IF m3u8Key \notin DOMAIN trk \/ trk[m3u8Key].allSegmentsReceived
    THEN trk
    ELSE LET scanned == TimeoutScan(trk[m3u8Key], 1)
             decided == IF AllReceived(trk[m3u8Key].segments)
                        THEN [scanned EXCEPT !.allSegmentsReceived = TRUE,
                                             !.successiveTimeouts = 0]
                        ELSE scanned
         IN  [trk EXCEPT ![m3u8Key] = [decided EXCEPT !.timeoutId = undefined]]

(***************************************************************************)
(* SegmentHandler.                                                         *)
(***************************************************************************)
\* The push that never shifts.
PushIntervalNoShift(intervals, interval) == Append(intervals, interval)

\* segmentArrivalIntervals.push(interval), shift() beyond 20 entries.
PushInterval(intervals, interval) ==
    LET pushed == Append(intervals, interval)
    IN  IF Len(pushed) > MaxSegmentArrivalIntervals THEN Tail(pushed) ELSE pushed

\* The update that declares the revision complete after every reception.
MarkReceivedDeclaresComplete(trackingInfo, segmentKey, size, now) ==
    LET i == MapIndex(trackingInfo.segments, segmentKey)
        previousTime == trackingInfo.lastSegmentReceivedTime
    IN  [trackingInfo EXCEPT
            !.segments[i].received = TRUE,
            !.segments[i].receivedAt = now,
            !.segments[i].size = size,
            !.successiveTimeouts = 0,
            !.lastSegmentReceivedTime = now,
            !.segmentArrivalIntervals =
                IF previousTime > 0 THEN PushInterval(@, now - previousTime) ELSE @,
            !.allSegmentsReceived = TRUE,
            !.timeoutId = undefined]

\* updateSegmentInfo on the entry of segmentKey: the new tracking info.
MarkReceived(trackingInfo, segmentKey, size, now) ==
    LET i == MapIndex(trackingInfo.segments, segmentKey)
        previousTime == trackingInfo.lastSegmentReceivedTime
        marked == [trackingInfo EXCEPT
                      !.segments[i].received = TRUE,
                      !.segments[i].receivedAt = now,
                      !.segments[i].size = size,
                      !.successiveTimeouts = 0,
                      !.lastSegmentReceivedTime = now,
                      !.segmentArrivalIntervals =
                          IF previousTime > 0 THEN PushInterval(@, now - previousTime) ELSE @]
    IN  IF AllReceived(marked.segments)
        THEN [marked EXCEPT !.allSegmentsReceived = TRUE, !.timeoutId = undefined]
        ELSE marked

\* The update that leaves the timer of a completed revision pending.
updateSegmentInfoKeepsTimer(trk, tms, m3u8Key, segmentKey, size, now) ==
    [found |-> TRUE,
     tracker |-> [trk EXCEPT ![m3u8Key] = MarkReceived(trk[m3u8Key], segmentKey, size, now)],
     timers |-> tms]

\* updateSegmentInfo: the tracker and the timers after it.
updateSegmentInfo(trk, tms, m3u8Key, segmentKey, size, now) ==
    LET marked == MarkReceived(trk[m3u8Key], segmentKey, size, now)
    IN  [found |-> TRUE,
         tracker |-> [trk EXCEPT ![m3u8Key] = marked],
         timers |-> IF marked.allSegmentsReceived /\ trk[m3u8Key].timeoutId # undefined
                    THEN clearTimeout(tms, trk[m3u8Key].timeoutId)
                    ELSE tms]

\* The similarity that knows only names differing in their last part.
SimilarToSameBaseOnly(segmentName, key) ==
    /\ Includes(segmentName, "_") /\ Includes(StripExt(key), "_")
    /\ Len(Split(segmentName, "_")) = Len(Split(StripExt(key), "_"))
    /\ Join(SubSeq(Split(segmentName, "_"), 1, Len(Split(segmentName, "_")) - 1), "_")
         = Join(SubSeq(Split(StripExt(key), "_"), 1, Len(Split(StripExt(key), "_")) - 1), "_")

\* findSimilarSegment: the key of the first unreceived .ts entry that has the
\* same parts but the last one, or that is a prefix of the name or has it as
\* a prefix; <<>> is null.
SimilarTo(segmentName, key) ==
    LET keyName == StripExt(key)
        segmentParts == Split(segmentName, "_")
        keyParts == Split(keyName, "_")
    IN  \/ /\ Includes(segmentName, "_") /\ Includes(keyName, "_")
           /\ Len(segmentParts) = Len(keyParts)
           /\ Join(SubSeq(segmentParts, 1, Len(segmentParts) - 1), "_")
                = Join(SubSeq(keyParts, 1, Len(keyParts) - 1), "_")
        \/ StartsWith(keyName, segmentName)
        \/ StartsWith(segmentName, keyName)

RECURSIVE FindSimilarFrom(_, _, _)
FindSimilarFrom(segmentName, segments, i) ==
    IF i > Len(segments) THEN <<>>
    ELSE IF EndsWith(segments[i].key, ExtTs) /\ ~segments[i].received
            /\ SimilarTo(segmentName, segments[i].key)
         THEN <<segments[i].key>>
         ELSE FindSimilarFrom(segmentName, segments, i + 1)

findSimilarSegment(segmentUri, trackingInfo) ==
    IF ~EndsWith(segmentUri, ExtTs) THEN <<>>
    ELSE FindSimilarFrom(StripExt(segmentUri), trackingInfo.segments, 1)

\* Set.add on the ordered set of candidate keys.
SetAdd(keys, k) == IF \E i \in 1..Len(keys) : keys[i] = k THEN keys ELSE Append(keys, k)

\* The candidate tracking keys of an uploaded segment, in insertion order.
PossibleKeys(channelId, segmentUriRelative) ==
    LET k0 == <<<<channelId, StripExt(PlaylistM3u8)>>>>
        filenameWithoutExt == StripExt(segmentUriRelative)
        parts == Split(filenameWithoutExt, "_")
        k1 == IF Len(parts) >= 2
              THEN SetAdd(k0, <<channelId, Join(SubSeq(parts, 1, Len(parts) - 1), "_")>>)
              ELSE k0
        k2 == IF Len(parts) >= 1 THEN SetAdd(k1, <<channelId, parts[1]>>) ELSE k1
    IN  IF EndsWith(segmentUriRelative, ExtTs)
        THEN IF Includes(filenameWithoutExt, "_") THEN k2
             ELSE SetAdd(k0, <<channelId, filenameWithoutExt>>)
        ELSE k0

\* The candidate test that takes complete revisions too.
IsOpenCandidateAlsoComplete(trk, m3u8Key, channelId) ==
    /\ m3u8Key \in DOMAIN trk
    /\ trk[m3u8Key].channelId = channelId

\* A candidate with tracking info of the channel that is not complete.
IsOpenCandidate(trk, m3u8Key, channelId) ==
    /\ m3u8Key \in DOMAIN trk
    /\ trk[m3u8Key].channelId = channelId
    /\ ~trk[m3u8Key].allSegmentsReceived

\* The loop that does not stop at its first match: the upload is marked in
\* every open candidate that expects it.
RECURSIVE MatchLoopMarksEvery(_, _, _, _, _, _, _, _)
MatchLoopMarksEvery(trk, tms, keys, i, channelId, segmentUriRelative, isMediaPackageV2, in) ==
    IF i > Len(keys) THEN [found |-> FALSE, tracker |-> trk, timers |-> tms]
    ELSE IF ~IsOpenCandidate(trk, keys[i], channelId)
    THEN MatchLoopMarksEvery(trk, tms, keys, i + 1, channelId, segmentUriRelative,
                             isMediaPackageV2, in)
    ELSE IF MapGet(trk[keys[i]].segments, segmentUriRelative) # <<>>
            /\ ~MapGet(trk[keys[i]].segments, segmentUriRelative)[1].received
    THEN [found |-> TRUE,
          tracker |-> MatchLoopMarksEvery(
                          updateSegmentInfo(trk, tms, keys[i], segmentUriRelative,
                                            in.size, in.now).tracker,
                          updateSegmentInfo(trk, tms, keys[i], segmentUriRelative,
                                            in.size, in.now).timers,
                          keys, i + 1, channelId, segmentUriRelative,
                          isMediaPackageV2, in).tracker,
          timers |-> MatchLoopMarksEvery(
                          updateSegmentInfo(trk, tms, keys[i], segmentUriRelative,
                                            in.size, in.now).tracker,
                          updateSegmentInfo(trk, tms, keys[i], segmentUriRelative,
                                            in.size, in.now).timers,
                          keys, i + 1, channelId, segmentUriRelative,
                          isMediaPackageV2, in).timers]
    ELSE MatchLoopMarksEvery(trk, tms, keys, i + 1, channelId, segmentUriRelative,
                             isMediaPackageV2, in)

\* The first loop over the candidate keys: exact match, then (for a
\* MediaPackage v2 upload) a similar segment of the same candidate.
RECURSIVE MatchLoop(_, _, _, _, _, _, _, _)
MatchLoop(trk, tms, keys, i, channelId, segmentUriRelative, isMediaPackageV2, in) ==
    IF i > Len(keys) THEN [found |-> FALSE, tracker |-> trk, timers |-> tms]
    ELSE IF ~IsOpenCandidate(trk, keys[i], channelId)
    THEN MatchLoop(trk, tms, keys, i + 1, channelId, segmentUriRelative, isMediaPackageV2, in)
    ELSE LET trackingInfo == trk[keys[i]]
             direct == MapGet(trackingInfo.segments, segmentUriRelative)
             similar == findSimilarSegment(segmentUriRelative, trackingInfo)
         IN  IF direct # <<>> /\ ~direct[1].received
             THEN updateSegmentInfo(trk, tms, keys[i], segmentUriRelative, in.size, in.now)
             ELSE IF isMediaPackageV2 /\ similar # <<>>
                     /\ ~trackingInfo.segments[MapIndex(trackingInfo.segments, similar[1])].received
             THEN updateSegmentInfo(trk, tms, keys[i], similar[1], in.size, in.now)
             ELSE MatchLoop(trk, tms, keys, i + 1, channelId, segmentUriRelative,
                            isMediaPackageV2, in)

\* The second loop: the upload is added as a new received segment to the
\* first open candidate.
AddedSegment(trackingInfo, segmentUriRelative, size, now) ==
    [trackingInfo EXCEPT
        !.segments = MapSet(@, [key |-> segmentUriRelative,
                                uri |-> segmentUriRelative,
                                duration |-> AddedSegmentDuration,
                                received |-> TRUE,
                                receivedAt |-> now,
                                size |-> size,
                                firstSeenAt |-> now,
                                timeoutOccurred |-> FALSE]),
        !.segmentArrivalIntervals =
            IF trackingInfo.lastSegmentReceivedTime > 0
            THEN PushInterval(@, now - trackingInfo.lastSegmentReceivedTime) ELSE @,
        !.lastSegmentReceivedTime = now]

RECURSIVE AddLoop(_, _, _, _, _, _)
AddLoop(trk, keys, i, channelId, segmentUriRelative, in) ==
    IF i > Len(keys) THEN [found |-> FALSE, tracker |-> trk]
    ELSE IF IsOpenCandidate(trk, keys[i], channelId)
    THEN [found |-> TRUE,
          tracker |-> [trk EXCEPT ![keys[i]] =
                          AddedSegment(trk[keys[i]], segmentUriRelative, in.size, in.now)]]
    ELSE AddLoop(trk, keys, i + 1, channelId, segmentUriRelative, in)

\* The correlation of a stored upload: [matched, added, tracker, timers].
Correlate(trk, tms, channelId, segmentUriRelative, isMediaPackageV2, size, now) ==
    LET keys == PossibleKeys(channelId, segmentUriRelative)
        in == [size |-> size, now |-> now]
        m == MatchLoop(trk, tms, keys, 1, channelId, segmentUriRelative, isMediaPackageV2, in)
        a == AddLoop(trk, keys, 1, channelId, segmentUriRelative, in)
    IN  IF m.found
        THEN [matched |-> TRUE, added |-> FALSE, tracker |-> m.tracker, timers |-> m.timers]
        ELSE IF Len(keys) > 0 /\ a.found
        THEN [matched |-> FALSE, added |-> TRUE, tracker |-> a.tracker, timers |-> tms]
        ELSE [matched |-> FALSE, added |-> FALSE, tracker |-> trk, timers |-> tms]

(***************************************************************************)
(* State.                                                                  *)
(*   tracker   streamTracker: tracking key -> M3u8TrackingInfo             *)
(*   timers    the pending setTimeout callbacks                            *)
(*   storage   the files written under mockStoragePath                     *)
(*   clock     Date.now(), in ticks                                        *)
(*   response  the status of the last response sent (0 before the first)   *)
(*   fetching  the playlist ingests suspended in fetchM3u8Content          *)
(*   running   the process has not exited                                  *)
(***************************************************************************)
Init ==
    /\ tracker = <<>>
    /\ timers = {}
    /\ storage = {}
    /\ clock = 1
    /\ response = 0
    /\ fetching = {}
    /\ running = TRUE

\* Time passes between two events.
Tick ==
    /\ clock < MaxClock
    /\ clock' = clock + 1
    /\ UNCHANGED <<tracker, timers, storage, response, fetching, running>>

\* The ingest that does not look for the body.
M3u8HandlePutNoBodyCheck(channelId, path, hasBody, content, writeOk) ==
    /\ StoreAndTrack(channelId, path, content, writeOk, clock)
    /\ running
    /\ UNCHANGED <<clock, fetching, running>>

\* M3u8Handler.handlePut with a missing body or with the playlist text as
\* body: runs to completion.  hasBody is false for a request without rawBody.
M3u8HandlePut(channelId, path, hasBody, content, writeOk) ==
    /\ IF ~hasBody
       THEN /\ response' = 400
            /\ UNCHANGED <<tracker, timers, storage>>
       ELSE StoreAndTrack(channelId, path, content, writeOk, clock)
    /\ running
    /\ UNCHANGED <<clock, fetching, running>>

\* M3u8Handler.handlePut with a URL as body: suspends in fetchM3u8Content.
M3u8HandlePutUrl(channelId, path) ==
    /\ fetching' = fetching \cup {[channelId |-> channelId, path |-> path]}
    /\ running
    /\ UNCHANGED <<tracker, timers, storage, clock, response, running>>

\* The resumed ingest that merges with the revision as it was before the
\* receptions recorded during the fetch.
M3u8FetchReturnReadsBeforeFetch(f, fetchOk, content, writeOk) ==
    /\ f \in fetching
    /\ fetching' = fetching \ {f}
    /\ IF ~fetchOk
       THEN /\ response' = 500
            /\ UNCHANGED <<tracker, timers, storage>>
       ELSE IF ~writeOk
       THEN /\ response' = 500
            /\ UNCHANGED <<tracker, timers, storage>>
       ELSE /\ storage' = storage \cup {<<f.channelId, M3u8Filename(f.path)>>}
            /\ TrackParsed(f.channelId, f.path, M3u8Key(f.channelId, f.path),
                           parseM3u8(content, f.path.style = "v2"),
                           IF M3u8Key(f.channelId, f.path) \in DOMAIN tracker
                           THEN <<[tracker[M3u8Key(f.channelId, f.path)] EXCEPT
                                      !.segments = [i \in DOMAIN @ |->
                                          [@[i] EXCEPT !.received = FALSE,
                                                       !.receivedAt = undefined,
                                                       !.size = undefined]]]>>
                           ELSE <<>>,
                           clock)
    /\ running
    /\ UNCHANGED <<clock, running>>

\* The fetch of a suspended ingest returns (or fails) and handlePut resumes.
M3u8FetchReturn(f, fetchOk, content, writeOk) ==
    /\ f \in fetching
    /\ fetching' = fetching \ {f}
    /\ IF ~fetchOk
       THEN /\ response' = 500
            /\ UNCHANGED <<tracker, timers, storage>>
       ELSE StoreAndTrack(f.channelId, f.path, content, writeOk, clock)
    /\ running
    /\ UNCHANGED <<clock, running>>

\* The end of SegmentHandler.handlePut: the outcome of the correlation is
\* the new tracking state, and the answer is 200.
StoreCorrelated(c) ==
    /\ tracker' = c.tracker
    /\ timers' = c.timers
    /\ response' = 200

\* The upload that correlates before it knows whether the file was written.
SegmentHandlePutTrackFirst(channelId, style, segmentPathFull, hasBody, size, writeOk) ==
    /\ IF segmentPathFull = <<>> \/ ~hasBody
       THEN /\ response' = 400
            /\ UNCHANGED <<tracker, timers, storage>>
       ELSE /\ storage' = IF writeOk
                          THEN storage \cup {<<channelId, LastPathComponent(segmentPathFull)>>}
                          ELSE storage
            /\ tracker' = Correlate(tracker, timers, channelId,
                                    LastPathComponent(segmentPathFull),
                                    style = "v2", size, clock).tracker
            /\ timers' = Correlate(tracker, timers, channelId,
                                   LastPathComponent(segmentPathFull),
                                   style = "v2", size, clock).timers
            /\ response' = IF writeOk THEN 200 ELSE 500
    /\ running
    /\ UNCHANGED <<clock, fetching, running>>

\* SegmentHandler.handlePut.  segmentPathFull is the path below the channel
\* (<<>> when the route gave none).
SegmentHandlePut(channelId, style, segmentPathFull, hasBody, size, writeOk) ==
    /\ IF segmentPathFull = <<>> \/ ~hasBody
       THEN /\ response' = 400
            /\ UNCHANGED <<tracker, timers, storage>>
       ELSE IF ~writeOk
       THEN /\ response' = 500
            /\ UNCHANGED <<tracker, timers, storage>>
       ELSE /\ storage' = storage \cup {<<channelId, LastPathComponent(segmentPathFull)>>}
            /\ StoreCorrelated(Correlate(tracker, timers, channelId,
                                         LastPathComponent(segmentPathFull),
                                         style = "v2", size, clock))
    /\ running
    /\ UNCHANGED <<clock, fetching, running>>

\* A pending timer fires once its delay has passed.
TimerFire(t) ==
    /\ t \in timers
    /\ clock >= t.due
    /\ timers' = timers \ {t}
    /\ tracker' = checkSegmentArrival(tracker, t.key)
    /\ running
    /\ UNCHANGED <<storage, clock, response, fetching, running>>

(***************************************************************************)
(* Inputs of the model.                                                    *)
(***************************************************************************)
Seg1 == <<"s", "e", "g", "_", "1", ".", "t", "s">>

Seg2 == <<"s", "e", "g", "_", "2", ".", "t", "s">>

MainM3u8 == <<"m", "a", "i", "n", ".", "m", "3", "u", "8">>

LineTargetDuration1 == TagTargetDuration \o <<"1">>

LineExtInf1 == TagExtInf \o <<"1", ".", "0", ",">>

LineExtM3u == <<"#", "E", "X", "T", "M", "3", "U">>

ContentSeg12 == <<LineExtM3u, LineTargetDuration1, LineExtInf1, Seg1, LineExtInf1, Seg2>>

ContentSeg2 == <<LineExtM3u, LineTargetDuration1, LineExtInf1, Seg2>>

ContentNoSegments == <<LineExtM3u>>

Channels == {"c1"}

LivePlaylistPath == [style |-> "live", rest |-> <<>>]

LiveMainPath == [style |-> "live", rest |-> MainM3u8]

V2ChannelPath == [style |-> "v2", rest |-> ChannelEndpoint]

SegmentPaths == {Seg1, Seg2}

Sizes == {1}

(***************************************************************************)
(* The steps of the environment, over given sets of inputs.                *)
(***************************************************************************)
CanIngest(channelId, path) ==
    LET k == M3u8Key(channelId, path)
    IN  k \in DOMAIN tracker => tracker[k].rev < MaxRevisions

CanUpload ==
    \A k \in DOMAIN tracker : Len(tracker[k].segmentArrivalIntervals) < MaxIntervals

Ingest(paths, contents) ==
    \E channelId \in Channels, path \in paths, content \in contents :
        /\ CanIngest(channelId, path)
        /\ M3u8HandlePut(channelId, path, TRUE, content, TRUE)

IngestFails(paths) ==
    \E channelId \in Channels, path \in paths, hasBody \in BOOLEAN :
        M3u8HandlePut(channelId, path, hasBody, ContentSeg12, FALSE)

IngestUrl(paths) ==
    \E channelId \in Channels, path \in paths :
        /\ Cardinality(fetching) < MaxInflight
        /\ M3u8HandlePutUrl(channelId, path)

FetchReturn(contents) ==
    \E f \in fetching, fetchOk \in BOOLEAN, content \in contents :
        /\ CanIngest(f.channelId, f.path)
        /\ M3u8FetchReturn(f, fetchOk, content, TRUE)

Upload(styles) ==
    \E channelId \in Channels, style \in styles, p \in SegmentPaths, size \in Sizes :
        /\ CanUpload
        /\ SegmentHandlePut(channelId, style, p, TRUE, size, TRUE)

UploadFails(styles) ==
    \E channelId \in Channels, style \in styles, p \in SegmentPaths, hasBody \in BOOLEAN :
        SegmentHandlePut(channelId, style, p, hasBody, 1, FALSE)

Fire == \E t \in timers : TimerFire(t)

(***************************************************************************)
(* Spec: one playlist per channel, ingested through the live and the       *)
(* MediaPackage v2 endpoints, with every kind of request.                  *)
(***************************************************************************)
M3u8Paths == {LivePlaylistPath, V2ChannelPath}

Contents == {ContentSeg12, ContentSeg2, ContentNoSegments}

Styles == {"live", "v2"}

Next ==
    \/ Tick
    \/ Ingest(M3u8Paths, Contents)
    \/ IngestFails(M3u8Paths)
    \/ IngestUrl(M3u8Paths)
    \/ FetchReturn(Contents)
    \/ Upload(Styles)
    \/ UploadFails(Styles)
    \/ Fire

Spec == Init /\ [][Next]_vars

(***************************************************************************)
(* SpecKeys: two playlists of one channel, playlist.m3u8 and main.m3u8,    *)
(* ingested and uploaded to through the live endpoints.                    *)
(***************************************************************************)
KeysPaths == {LivePlaylistPath, LiveMainPath}

KeysContents == {ContentSeg12, ContentSeg2}

NextKeys ==
    \/ Tick
    \/ Ingest(KeysPaths, KeysContents)
    \/ IngestUrl({LiveMainPath})
    \/ FetchReturn(KeysContents)
    \/ Upload({"live"})
    \/ Fire

SpecKeys == Init /\ [][NextKeys]_vars

(***************************************************************************)
(* Properties.                                                             *)
(***************************************************************************)
\* A step that stores a new revision under key k.
IsIngestOf(k) ==
    /\ k \in DOMAIN tracker'
    /\ (k \notin DOMAIN tracker \/ tracker'[k].rev # tracker[k].rev)

\* A step that replaces the revision stored under key k.
IsReingestOf(k) ==
    /\ k \in DOMAIN tracker
    /\ k \in DOMAIN tracker'
    /\ tracker'[k].rev # tracker[k].rev

TimersOf(tms, k) == { t \in tms : t.key = k }

ReceivedCount(trackingInfo) ==
    Cardinality({ i \in 1..Len(trackingInfo.segments) : trackingInfo.segments[i].received })

\* C1: every tracking key has at most one pending deadline timer, and a
\* pending timer is the one whose handle the stored revision of its key
\* holds: the timer of a replaced revision has been cancelled.
C1_OneTimerPerKey ==
    /\ \A k \in DOMAIN tracker : Cardinality(TimersOf(timers, k)) <= 1
    /\ \A t \in timers : t.key \in DOMAIN tracker /\ tracker[t.key].timeoutId = t.id

\* C1 witness: two keys have a pending timer each, one of them armed by a
\* re-ingest that replaced a revision whose timer was still pending.
C1_Witness ==
      /\ \E k \in DOMAIN tracker :
            /\ tracker[k].rev >= 2
            /\ clock = 1
            /\ ReceivedCount(tracker[k]) = 0
            /\ TimersOf(timers, k) # {}
      /\ Cardinality({ t.key : t \in timers }) = 2

\* C2: a timeout evaluation that runs for key K was armed by the revision
\* stored under K when it runs.
C2_EvaluationOfCurrentRevision ==
    [][\A t \in timers :
          TimerFire(t) => (t.key \in DOMAIN tracker /\ tracker[t.key].rev = t.rev)]_vars

\* C2 witness: the deadline of a second revision, ingested at tick 1, has
\* been evaluated and has counted a timeout.
C2_Witness ==
      \E k \in DOMAIN tracker :
          /\ tracker[k].rev = 2
          /\ tracker[k].receivedAt = 1
          /\ tracker[k].timeoutEvents > 0
          /\ tracker[k].timeoutId = undefined

\* C3: a re-ingest that still advertises a received identity leaves it
\* received, with the receivedAt and the size it had.
C3_ReingestPreservesReception ==
    [][\A k \in DOMAIN tracker :
          IsReingestOf(k) =>
              \A i \in 1..Len(tracker[k].segments) :
                  LET x == tracker[k].segments[i]
                      y == MapGet(tracker'[k].segments, x.key)
                  IN  (x.received /\ y # <<>>) =>
                          /\ y[1].received
                          /\ y[1].receivedAt = x.receivedAt
                          /\ y[1].size = x.size]_vars

\* C3 witness: a revision ingested at tick 2 holds a segment received at
\* tick 1.
C3_Witness ==
      \E k \in DOMAIN tracker :
          /\ tracker[k].rev >= 2
          /\ tracker[k].receivedAt = 2
          /\ \E i \in 1..Len(tracker[k].segments) :
                /\ tracker[k].segments[i].received
                /\ tracker[k].segments[i].receivedAt = 1
                /\ tracker[k].segments[i].size = 1

\* C4: for an identity that stays in the segment map of a key, received
\* never changes from true to false.
C4_ReceivedNeverReverts ==
    [][\A k \in DOMAIN tracker :
          k \in DOMAIN tracker' =>
              \A i \in 1..Len(tracker[k].segments) :
                  LET x == tracker[k].segments[i]
                      y == MapGet(tracker'[k].segments, x.key)
                  IN  (x.received /\ y # <<>>) => y[1].received]_vars

\* C4 witness: a received segment in a revision that replaced another one,
\* next to a segment that a deadline firing marked as timed out.
C4_Witness ==
      \E k \in DOMAIN tracker :
          /\ tracker[k].rev >= 2
          /\ \E i, j \in 1..Len(tracker[k].segments) :
                /\ tracker[k].segments[i].received
                /\ tracker[k].segments[j].timeoutOccurred

\* C5: right after an ingest stores a revision, its allSegmentsReceived
\* flag is the conjunction of received over its segments.
C5_FlagIsConjunctionAfterIngest ==
    [][\A k \in DOMAIN tracker' :
          IsIngestOf(k) =>
              (tracker'[k].allSegmentsReceived <=> AllReceived(tracker'[k].segments))]_vars

\* C6: after an ingest a deadline is armed for the new revision exactly
\* when it has a segment and one of its segments is unreceived.
C6_DeadlineArmedIffOutstanding ==
    [][\A k \in DOMAIN tracker' :
          IsIngestOf(k) =>
              ((\E t \in timers' : t.key = k /\ t.rev = tracker'[k].rev)
                  <=> (Len(tracker'[k].segments) > 0 /\ ~AllReceived(tracker'[k].segments)))]_vars

\* The revisions of the channel that are not complete and expect the name.
OpenExpecting(channelId, name) ==
    { k \in DOMAIN tracker :
        /\ tracker[k].channelId = channelId
        /\ ~tracker[k].allSegmentsReceived
        /\ \E i \in 1..Len(tracker[k].segments) :
              tracker[k].segments[i].key = name /\ ~tracker[k].segments[i].received }

\* The name has been uploaded before and its expectation is received: some
\* revision of the channel holds it as received and none as unreceived.
AlreadyReceived(channelId, name) ==
    /\ <<channelId, name>> \in storage
    /\ \E k \in DOMAIN tracker :
          /\ tracker[k].channelId = channelId
          /\ \E i \in 1..Len(tracker[k].segments) :
                tracker[k].segments[i].key = name /\ tracker[k].segments[i].received
    /\ \A k \in DOMAIN tracker :
          tracker[k].channelId = channelId =>
              \A i \in 1..Len(tracker[k].segments) :
                  tracker[k].segments[i].key = name => tracker[k].segments[i].received

\* C7: an upload whose name is an unreceived expectation of a revision of
\* the channel that is not complete marks such an expectation as received,
\* whatever the tracking key of that revision.
C7_ExactMatchInEveryRevision ==
    [][\A channelId \in Channels, style \in {"live", "v2"}, p \in SegmentPaths, size \in Sizes :
          (/\ OpenExpecting(channelId, p) # {}
           /\ SegmentHandlePut(channelId, style, p, TRUE, size, TRUE))
          => \E k \in OpenExpecting(channelId, p) :
                 LET y == MapGet(tracker'[k].segments, p)
                 IN  y # <<>> /\ y[1].received]_vars

\* C8: a second upload of a name whose expectation is received leaves the
\* number of received segments of every revision unchanged.
C8_SecondUploadKeepsReceivedCount ==
    [][\A channelId \in Channels, style \in {"live", "v2"}, p \in SegmentPaths, size \in Sizes :
          (/\ AlreadyReceived(channelId, p)
           /\ SegmentHandlePut(channelId, style, p, TRUE, size, TRUE))
          => \A k \in DOMAIN tracker :
                 ReceivedCount(tracker'[k]) = ReceivedCount(tracker[k])]_vars

\* C9: an upload of a name whose expectation is received changes nothing
\* of the tracking state.
C9_SecondUploadIsNoOp ==
    [][\A channelId \in Channels, style \in {"live", "v2"}, p \in SegmentPaths, size \in Sizes :
          (/\ AlreadyReceived(channelId, p)
           /\ SegmentHandlePut(channelId, style, p, TRUE, size, TRUE))
          => (tracker' = tracker /\ timers' = timers)]_vars

\* C10: an upload that is matched to no expectation changes no revision,
\* and is stored and answered with 200.
C10_NoMatchLeavesStatistics ==
    [][\A channelId \in Channels, style \in {"live", "v2"}, p \in SegmentPaths, size \in Sizes :
          (/\ ~Correlate(tracker, timers, channelId, LastPathComponent(p), style = "v2",
                         size, clock).matched
           /\ SegmentHandlePut(channelId, style, p, TRUE, size, TRUE))
          => /\ tracker' = tracker
             /\ <<channelId, LastPathComponent(p)>> \in storage'
             /\ response' = 200]_vars

\* The number of segments of a revision that are not received.
MissingCount(trackingInfo) ==
    Cardinality({ i \in 1..Len(trackingInfo.segments) : ~trackingInfo.segments[i].received })

\* The timer fires for a revision that is not complete and misses a segment.
FiresWithMissing(t) ==
    /\ TimerFire(t)
    /\ t.key \in DOMAIN tracker
    /\ ~tracker[t.key].allSegmentsReceived
    /\ MissingCount(tracker[t.key]) >= 1

Max(a, b) == IF a > b THEN a ELSE b

\* C11: a deadline that fires for a revision with k >= 1 unreceived
\* segments marks each of them as timed out, adds k to timeoutEvents and to
\* successiveTimeouts, raises maxSuccessiveTimeouts to the streak when the
\* streak exceeds it, and leaves allSegmentsReceived false.
C11_FiringCountsEveryMissingSegment ==
    [][\A t \in timers :
          FiresWithMissing(t) =>
              LET old == tracker[t.key]
                  new == tracker'[t.key]
                  k == MissingCount(old)
              IN  /\ Len(new.segments) = Len(old.segments)
                  /\ \A i \in 1..Len(old.segments) :
                        /\ new.segments[i].received = old.segments[i].received
                        /\ ~old.segments[i].received => new.segments[i].timeoutOccurred
                        /\ old.segments[i].received =>
                              new.segments[i].timeoutOccurred = old.segments[i].timeoutOccurred
                  /\ new.timeoutEvents = old.timeoutEvents + k
                  /\ new.successiveTimeouts = old.successiveTimeouts + k
                  /\ new.maxSuccessiveTimeouts =
                        Max(old.maxSuccessiveTimeouts, old.successiveTimeouts + k)
                  /\ ~new.allSegmentsReceived]_vars

\* C11 witness: of a first revision with two segments one was uploaded, and
\* the deadline has fired: one timeout event, one segment timed out.
C11_Witness ==
    \E k \in DOMAIN tracker :
        /\ tracker[k].rev = 1
        /\ Len(tracker[k].segments) = 2
        /\ ReceivedCount(tracker[k]) = 1
        /\ tracker[k].timeoutEvents = 1
        /\ tracker[k].timeoutId = undefined
        /\ ~tracker[k].allSegmentsReceived
        /\ \E i \in 1..2 : tracker[k].segments[i].timeoutOccurred

\* C12 as claimed: an evaluation that finds a missing segment adds one to
\* successiveTimeouts, however many segments are missing.
C12_StreakCountsEvaluations ==
    [][\A t \in timers :
          FiresWithMissing(t) =>
              tracker'[t.key].successiveTimeouts = tracker[t.key].successiveTimeouts + 1]_vars

\* C12 amended: successiveTimeouts counts timed-out segments: an evaluation
\* adds the number of segments it finds missing, so at least one and more
\* than one when several segments are missing.
C12_StreakCountsMissingSegments ==
    [][\A t \in timers :
          FiresWithMissing(t) =>
              /\ tracker'[t.key].successiveTimeouts
                    = tracker[t.key].successiveTimeouts + MissingCount(tracker[t.key])
              /\ (MissingCount(tracker[t.key]) >= 2 =>
                    tracker'[t.key].successiveTimeouts >= tracker[t.key].successiveTimeouts + 2)]_vars

\* C12 witness: the only evaluation of a first revision, which missed two
\* segments, has left a streak of two.
C12_Witness ==
    \E k \in DOMAIN tracker :
        /\ tracker[k].rev = 1
        /\ tracker[k].timeoutId = undefined
        /\ ReceivedCount(tracker[k]) = 0
        /\ Len(tracker[k].segments) = 2
        /\ tracker[k].successiveTimeouts = 2
        /\ tracker[k].timeoutEvents = 2

\* C13: for a tracking key, maxSuccessiveTimeouts never decreases, also
\* when its revision is replaced.
C13_MaxStreakNeverDecreases ==
    [][\A k \in DOMAIN tracker :
          /\ k \in DOMAIN tracker'
          /\ tracker'[k].maxSuccessiveTimeouts >= tracker[k].maxSuccessiveTimeouts]_vars

\* C13 witness: a revision that replaced another one holds a high-water
\* mark reached by an evaluation of the replaced revision.
C13_Witness ==
    \E k \in DOMAIN tracker :
        /\ tracker[k].rev >= 2
        /\ tracker[k].maxSuccessiveTimeouts >= 1
        /\ tracker[k].timeoutId # undefined
        /\ \E t \in timers : t.key = k /\ t.rev = tracker[k].rev

\* The segments a playlist declares keep their declared name as key; a
\* synthesized alternate key holds the declared name as uri.
DeclaredAllReceived(trackingInfo) ==
    \A i \in 1..Len(trackingInfo.segments) :
        trackingInfo.segments[i].key = trackingInfo.segments[i].uri
            => trackingInfo.segments[i].received

\* C14: when the last segment a playlist declares is uploaded before the
\* deadline of its revision, the revision becomes allSegmentsReceived and
\* its pending deadline is cancelled, so that it counts no timeout.
C14_AllDeclaredUploadedCompletes ==
    [][\A k \in DOMAIN tracker :
          (/\ k \in DOMAIN tracker'
           /\ tracker'[k].rev = tracker[k].rev
           /\ \E t \in timers : t.key = k /\ t.rev = tracker[k].rev
           /\ ~DeclaredAllReceived(tracker[k])
           /\ DeclaredAllReceived(tracker'[k]))
          => /\ tracker'[k].allSegmentsReceived
             /\ TimersOf(timers', k) = {}
             /\ tracker'[k].timeoutEvents = tracker[k].timeoutEvents]_vars

(***************************************************************************)
(* SpecFair: one playlist of one channel through the live endpoints, with  *)
(* the scheduling of the event loop: time passes until every armed         *)
(* deadline is due, and a timer that is due fires.                         *)
(***************************************************************************)
\* Time passes; it keeps passing while an armed deadline is not yet due.
TickUntilDue ==
    /\ clock < MaxClock \/ \E t \in timers : t.due > clock
    /\ clock' = clock + 1
    /\ UNCHANGED <<tracker, timers, storage, response, fetching, running>>

FairContents == {ContentSeg12, ContentSeg2}

NextFair ==
    \/ TickUntilDue
    \/ Ingest({LivePlaylistPath}, FairContents)
    \/ Upload({"live"})
    \/ Fire

SpecFair == Init /\ [][NextFair]_vars /\ WF_vars(TickUntilDue) /\ WF_vars(Fire)

\* The revision stored under the key advertises the name, unreceived and
\* not evaluated, and its deadline is armed.
Advertised(k, name) ==
    /\ k \in DOMAIN tracker
    /\ \E t \in timers : t.key = k /\ t.rev = tracker[k].rev
    /\ \E i \in 1..Len(tracker[k].segments) :
          /\ tracker[k].segments[i].key = name
          /\ ~tracker[k].segments[i].received
          /\ ~tracker[k].segments[i].timeoutOccurred

\* The name is held under the key as received or as timed out.
Decided(k, name) ==
    /\ k \in DOMAIN tracker
    /\ \E i \in 1..Len(tracker[k].segments) :
          /\ tracker[k].segments[i].key = name
          /\ (tracker[k].segments[i].received \/ tracker[k].segments[i].timeoutOccurred)

\* C15: every advertised segment is decided: a segment advertised by a
\* revision with an armed deadline is eventually received or counted as
\* timed out, also when newer revisions of the key are ingested before the
\* deadline elapses.
C15_EveryAdvertisedSegmentDecided ==
    \A channelId \in Channels, name \in SegmentPaths :
        [](Advertised(M3u8Key(channelId, LivePlaylistPath), name)
              => <>Decided(M3u8Key(channelId, LivePlaylistPath), name))

(***************************************************************************)
(* SpecHistory: one live playlist re-ingested more often than the history  *)
(* of its key is long.                                                     *)
(***************************************************************************)
MaxHistoryRevisions == 22

IngestUpTo(paths, contents, maxRevisions) ==
    \E channelId \in Channels, path \in paths, content \in contents :
        /\ M3u8Key(channelId, path) \in DOMAIN tracker
              => tracker[M3u8Key(channelId, path)].rev < maxRevisions
        /\ M3u8HandlePut(channelId, path, TRUE, content, TRUE)

NextHistory ==
    \/ Tick
    \/ IngestUpTo({LivePlaylistPath}, {ContentSeg2}, MaxHistoryRevisions)
    \/ Upload({"live"})
    \/ Fire

SpecHistory == Init /\ [][NextHistory]_vars

Min(a, b) == IF a < b THEN a ELSE b

\* previousM3u8Updates of key k before the step, empty for an unknown key.
HistoryBefore(k) == IF k \in DOMAIN tracker THEN tracker[k].previousM3u8Updates ELSE <<>>

\* C16: the history of ingest timestamps of a key never holds more than 20
\* entries and is ordered most recent first; an ingest puts its timestamp at
\* the front and keeps the entries before it in order, dropping the oldest
\* one when there were 20 already; no other step changes the history.
C16_HistoryCappedMostRecentFirst ==
    [][\A k \in DOMAIN tracker' :
          /\ Len(tracker'[k].previousM3u8Updates) <= 20
          /\ \A i \in 1..(Len(tracker'[k].previousM3u8Updates) - 1) :
                tracker'[k].previousM3u8Updates[i] >= tracker'[k].previousM3u8Updates[i + 1]
          /\ IF IsIngestOf(k)
             THEN /\ tracker'[k].previousM3u8Updates[1] = clock
                  /\ tracker'[k].receivedAt = clock
                  /\ tracker'[k].previousM3u8Updates
                        = SubSeq(<<clock>> \o HistoryBefore(k), 1,
                                 Min(20, Len(HistoryBefore(k)) + 1))
             ELSE tracker'[k].previousM3u8Updates = HistoryBefore(k)]_vars

\* The 21st consecutive ingest has happened: the history holds 20 entries,
\* the newest in front, and the timestamp 1 of the first ingest (a segment
\* arrived under the key at time 1) is gone.
C16_Witness ==
    \E k \in DOMAIN tracker :
        /\ tracker[k].rev = 21
        /\ tracker[k].lastSegmentReceivedTime = 1
        /\ Len(tracker[k].previousM3u8Updates) = 20
        /\ tracker[k].previousM3u8Updates[1] = 2
        /\ tracker[k].previousM3u8Updates[20] = 2
        /\ clock = 2

(***************************************************************************)
(* SpecIntervals: one live playlist and more uploads under its key than    *)
(* the list of arrival intervals is long.                                  *)
(***************************************************************************)
MaxLongIntervals == 22

UploadUpTo(styles, maxIntervals) ==
    \E channelId \in Channels, style \in styles, p \in SegmentPaths, size \in Sizes :
        /\ \A k \in DOMAIN tracker : Len(tracker[k].segmentArrivalIntervals) < maxIntervals
        /\ SegmentHandlePut(channelId, style, p, TRUE, size, TRUE)

NextIntervals ==
    \/ Tick
    \/ Ingest({LivePlaylistPath}, {ContentSeg12})
    \/ UploadUpTo(Styles, MaxLongIntervals)
    \/ Fire

SpecIntervals == Init /\ [][NextIntervals]_vars

\* C17: segmentArrivalIntervals of a key never holds more than 20 entries;
\* a step leaves the list as it is or appends one interval, the time since
\* the previous arrival, at the end; when the list held 20 entries the
\* oldest one is dropped and the others keep their order.
C17_IntervalsCappedFifo ==
    [][\A k \in DOMAIN tracker' :
          /\ Len(tracker'[k].segmentArrivalIntervals) <= 20
          /\ IF k \in DOMAIN tracker
             THEN \/ tracker'[k].segmentArrivalIntervals = tracker[k].segmentArrivalIntervals
                  \/ /\ Len(tracker[k].segmentArrivalIntervals) < 20
                     /\ tracker'[k].segmentArrivalIntervals
                           = Append(tracker[k].segmentArrivalIntervals,
                                    clock - tracker[k].lastSegmentReceivedTime)
                  \/ /\ Len(tracker[k].segmentArrivalIntervals) = 20
                     /\ tracker'[k].segmentArrivalIntervals
                           = Append(Tail(tracker[k].segmentArrivalIntervals),
                                    clock - tracker[k].lastSegmentReceivedTime)
             ELSE tracker'[k].segmentArrivalIntervals = <<>>]_vars

\* More than 20 intervals were appended: a segment arrived at time 1, so
\* the first arrival at time 2 appended the interval 1; the list now holds
\* 20 intervals, all 0, and the interval 1 is gone.
C17_Witness ==
    \E k \in DOMAIN tracker :
        /\ Len(tracker[k].segmentArrivalIntervals) = 20
        /\ \A i \in 1..20 : tracker[k].segmentArrivalIntervals[i] = 0
        /\ tracker[k].lastSegmentReceivedTime = 2
        /\ \E i \in 1..Len(tracker[k].segments) :
              tracker[k].segments[i].received /\ tracker[k].segments[i].receivedAt = 1

(***************************************************************************)
(* SpecNames: playlists that declare seg1.ts, under the default key and    *)
(* under the key of the base name seg1, and uploads named seg1.ts and      *)
(* seg1_7.ts through both endpoints.                                       *)
(***************************************************************************)
SegPlain == <<"s", "e", "g", "1", ".", "t", "s">>

SegCounted == <<"s", "e", "g", "1", "_", "7", ".", "t", "s">>

ContentSegPlain == <<LineExtM3u, LineTargetDuration1, LineExtInf1, SegPlain>>

\* /live/<channelId>/seg1.m3u8
LiveBaseNamePath == [style |-> "live", rest |-> <<"s", "e", "g", "1">> \o ExtM3u8]

NamesPaths == {LivePlaylistPath, V2ChannelPath, LiveBaseNamePath}

UploadOf(styles, names) ==
    \E channelId \in Channels, style \in styles, p \in names, size \in Sizes :
        /\ CanUpload
        /\ SegmentHandlePut(channelId, style, p, TRUE, size, TRUE)

NextNames ==
    \/ Tick
    \/ Ingest(NamesPaths, {ContentSegPlain})
    \/ UploadOf(Styles, {SegPlain, SegCounted})
    \/ Fire

SpecNames == Init /\ [][NextNames]_vars

\* The expectation name of key k is received after the step, at this time.
BecomesReceived(k, name) ==
    /\ k \in DOMAIN tracker'
    /\ \E i \in 1..Len(tracker'[k].segments) :
          /\ tracker'[k].segments[i].key = name
          /\ tracker'[k].segments[i].received
          /\ tracker'[k].segments[i].receivedAt = clock

C19_MissingBodyChangesNothing ==
    [][/\ \A channelId \in Channels, path \in M3u8Paths, content \in Contents, writeOk \in BOOLEAN :
             M3u8HandlePut(channelId, path, FALSE, content, writeOk)
                => response' = 400 /\ UNCHANGED <<tracker, timers, storage, fetching>>
       /\ \A channelId \in Channels, style \in Styles, p \in SegmentPaths,
             size \in Sizes, writeOk \in BOOLEAN :
             SegmentHandlePut(channelId, style, p, FALSE, size, writeOk)
                => response' = 400 /\ UNCHANGED <<tracker, timers, storage, fetching>>
       /\ (response' = 400 /\ response # 400)
             => UNCHANGED <<tracker, timers, storage, fetching>>]_vars

\* A request without a body was answered while a revision with an
\* unreceived segment was stored and its deadline armed.
C19_Witness ==
    /\ response = 400
    /\ storage # {}
    /\ \E k \in DOMAIN tracker :
          /\ MissingCount(tracker[k]) >= 1
          /\ \E t \in timers : t.key = k /\ t.id = tracker[k].timeoutId

\* C20: when the write of a playlist or of a segment to the storage fails,
\* the answer is 500 and the tracking state is as before: no revision is
\* stored or replaced, no segment marked, no counter changed, no timer
\* armed or cancelled.
C20_WriteFailureChangesNoTracking ==
    [][/\ \A channelId \in Channels, path \in M3u8Paths, content \in Contents :
             M3u8HandlePut(channelId, path, TRUE, content, FALSE)
                => response' = 500 /\ UNCHANGED <<tracker, timers, storage>>
       /\ \A f \in fetching, content \in Contents :
             M3u8FetchReturn(f, TRUE, content, FALSE)
                => response' = 500 /\ UNCHANGED <<tracker, timers, storage>>
       /\ \A channelId \in Channels, style \in Styles, p \in SegmentPaths, size \in Sizes :
             SegmentHandlePut(channelId, style, p, TRUE, size, FALSE)
                => response' = 500 /\ UNCHANGED <<tracker, timers, storage>>]_vars

\* A request was answered 500 while both segments of a stored revision were
\* expected, its deadline was armed and no ingest was suspended: neither
\* segment reached the storage nor was marked.
C20_Witness ==
    /\ response = 500
    /\ fetching = {}
    /\ \E k \in DOMAIN tracker :
          /\ Len(tracker[k].segments) = 2
          /\ MissingCount(tracker[k]) = 2
          /\ \A i \in 1..Len(tracker[k].segments) :
                <<tracker[k].channelId, tracker[k].segments[i].key>> \notin storage
          /\ \E t \in timers : t.key = k /\ t.id = tracker[k].timeoutId

(***************************************************************************)
(* SpecParse: one live playlist ingested with texts that hold a segment    *)
(* and with texts that hold none: empty, without any tag, with the header  *)
(* only, and a master playlist cut after its variant tag.                  *)
(***************************************************************************)
\* ''.split('\n') is ['']
ContentEmpty == <<<<>>>>

LineVersion == <<"#", "E", "X", "T", "-", "X", "-", "V", "E", "R", "S", "I", "O", "N", ":", "3">>

LineInvalid == <<"I", "n", "v", "a", "l", "i", "d">>

ContentInvalid == <<LineExtM3u, LineVersion, LineInvalid>>

LineStreamInf == TagStreamInf \o <<"B", "A", "N", "D", "W", "I", "D", "T", "H", "=", "1">>

\* The text ends with the variant tag: no line follows it.
ContentCutMaster == <<LineExtM3u, LineStreamInf>>

ParseContents == {ContentSeg2, ContentEmpty, ContentInvalid, ContentNoSegments, ContentCutMaster}

NextParse ==
    \/ Tick
    \/ Ingest({LivePlaylistPath}, ParseContents)
    \/ Upload({"live"})
    \/ Fire

SpecParse == Init /\ [][NextParse]_vars

\* A line of the text that is a segment entry (a duration tag followed by an
\* identity line) or a variant entry (a variant tag followed by a URI line).
HasEntry(content) ==
    \E i \in 1..(Len(content) - 1) :
        /\ StartsWith(Trim(content[i]), TagExtInf) \/ StartsWith(Trim(content[i]), TagStreamInf)
        /\ Trim(content[i + 1]) # <<>>
        /\ ~StartsWith(Trim(content[i + 1]), <<"#">>)

\* C21: the ingest of a text without segment or variant entry answers 200
\* and leaves the tracker and the timers as they are: no revision is
\* created, and a stored revision and its armed deadline are unchanged.
C21_NoEntrySkipsTracking ==
    [][\A channelId \in Channels, content \in ParseContents :
          (~HasEntry(content) /\ M3u8HandlePut(channelId, LivePlaylistPath, TRUE, content, TRUE))
             => response' = 200 /\ UNCHANGED <<tracker, timers>>]_vars

\* The lines of the text that are per-segment duration directives followed
\* by a segment identity line.
Directives(content) ==
    { i \in 1..(Len(content) - 1) :
        /\ StartsWith(Trim(content[i]), TagExtInf)
        /\ Trim(content[i + 1]) # <<>>
        /\ ~StartsWith(Trim(content[i + 1]), <<"#">>) }

\* The duration that directive i of the text gives.
DirectiveDuration(content, i) == ParseFloat(Split(Split(Trim(content[i]), ":")[2], ",")[1])

\* C22: the revision stored by the ingest of a text with N duration
\* directives, each followed by an identity line, holds exactly N segments,
\* and for each directive a segment of its identity, unreceived and with
\* the duration of the directive.
C22_OneExpectationPerDirective ==
    [][\A channelId \in Channels, path \in M3u8Paths, content \in Contents :
          (/\ Directives(content) # {}
           /\ M3u8HandlePut(channelId, path, TRUE, content, TRUE))
          => /\ M3u8Key(channelId, path) \in DOMAIN tracker'
             /\ Len(tracker'[M3u8Key(channelId, path)].segments)
                   = Cardinality(Directives(content))
             /\ \A i \in Directives(content) :
                   \E j \in 1..Len(tracker'[M3u8Key(channelId, path)].segments) :
                      /\ tracker'[M3u8Key(channelId, path)].segments[j].key
                            = LastPathComponent(Trim(content[i + 1]))
                      /\ ~tracker'[M3u8Key(channelId, path)].segments[j].received
                      /\ tracker'[M3u8Key(channelId, path)].segments[j].duration
                            = DirectiveDuration(content, i)]_vars

(***************************************************************************)
(* SpecMaster: master playlists with one and with two variant entries and  *)
(* a media playlist, sent as the body under the default key and fetched    *)
(* from a URL under the key main.                                          *)
(***************************************************************************)
VariantLow == <<"l", "o">> \o ExtM3u8

VariantHigh == <<"h", "i">> \o ExtM3u8

ContentMasterOne == <<LineExtM3u, LineStreamInf, VariantLow>>

ContentMasterTwo == <<LineExtM3u, LineStreamInf, VariantLow, LineStreamInf, VariantHigh>>

MasterContents == {ContentMasterOne, ContentMasterTwo, ContentSeg2}

NextMaster ==
    \/ Tick
    \/ Ingest({LivePlaylistPath}, MasterContents)
    \/ IngestUrl({LiveMainPath})
    \/ FetchReturn(MasterContents)
    \/ Upload({"live"})
    \/ Fire

SpecMaster == Init /\ [][NextMaster]_vars

\* The lines of the text that are variant tags followed by a URI line.
Variants(content) ==
    { i \in 1..(Len(content) - 1) :
        StartsWith(Trim(content[i]), TagStreamInf) /\ Trim(content[i + 1]) # <<>> }

\* The stored revision of key k holds one unreceived segment for each
\* variant entry of the text and no other.
TracksVariants(k, content) ==
    /\ k \in DOMAIN tracker'
    /\ tracker'[k].rev # (IF k \in DOMAIN tracker THEN tracker[k].rev ELSE 0)
    /\ ~tracker'[k].allSegmentsReceived
    /\ Len(tracker'[k].segments) = Cardinality(Variants(content))
    /\ \A i \in Variants(content) :
          \E j \in 1..Len(tracker'[k].segments) :
              /\ tracker'[k].segments[j].key = Trim(content[i + 1])
              /\ ~tracker'[k].segments[j].received

\* C23: the ingest of a master playlist without duration directive and with
\* V variant entries of distinct URIs answers 200 and stores a revision
\* with exactly V segments, the variant URIs, all unreceived; so does the
\* ingest that resumes after fetching that text from the URL in its body.
C23_MasterPlaylistTracksVariants ==
    [][\A content \in MasterContents :
          (Directives(content) = {} /\ Variants(content) # {})
          => /\ \A channelId \in Channels :
                   M3u8HandlePut(channelId, LivePlaylistPath, TRUE, content, TRUE)
                      => /\ response' = 200
                         /\ TracksVariants(M3u8Key(channelId, LivePlaylistPath), content)
             /\ \A f \in fetching :
                   M3u8FetchReturn(f, TRUE, content, TRUE)
                      => /\ response' = 200
                         /\ TracksVariants(M3u8Key(f.channelId, f.path), content)]_vars

\* The key main, ingested only by URL, holds the two variants of the fetched
\* master playlist, unreceived, with the default target duration.
C23_Witness ==
    \E channelId \in Channels :
        /\ M3u8Key(channelId, LiveMainPath) \in DOMAIN tracker
        /\ Len(tracker[M3u8Key(channelId, LiveMainPath)].segments) = 2
        /\ tracker[M3u8Key(channelId, LiveMainPath)].segments[1].key = VariantLow
        /\ tracker[M3u8Key(channelId, LiveMainPath)].segments[2].key = VariantHigh
        /\ ~tracker[M3u8Key(channelId, LiveMainPath)].segments[1].received
        /\ ~tracker[M3u8Key(channelId, LiveMainPath)].segments[2].received
        /\ tracker[M3u8Key(channelId, LiveMainPath)].targetDuration = DefaultTargetDuration

(***************************************************************************)
(* SpecOrder: an ingest by URL arrives for a key that has no revision yet, *)
(* and ingests with the playlist as body arrive while its fetch is         *)
(* pending.  A revision that is stored when the fetch returns was          *)
(* therefore built from an ingest that arrived after the ingest by URL.    *)
(***************************************************************************)
IngestUrlFirst(paths) ==
    \E channelId \in Channels, path \in paths :
        /\ M3u8Key(channelId, path) \notin DOMAIN tracker
        /\ Cardinality(fetching) < MaxInflight
        /\ M3u8HandlePutUrl(channelId, path)

IngestDuringFetch(contents) ==
    \E f \in fetching, content \in contents :
        /\ CanIngest(f.channelId, f.path)
        /\ M3u8HandlePut(f.channelId, f.path, TRUE, content, TRUE)

NextOrder ==
    \/ Tick
    \/ IngestUrlFirst({LivePlaylistPath})
    \/ IngestDuringFetch({ContentSeg2})
    \/ FetchReturn({ContentSeg12})
    \/ Upload({"live"})
    \/ Fire

SpecOrder == Init /\ [][NextOrder]_vars

\* C24: ingests of a key take effect in the order of their arrival: when
\* the ingest by URL resumes after its fetch and finds a revision stored by
\* an ingest that arrived after it, the stored revision stays the one built
\* from the later ingest.
C24_IngestsTakeEffectInArrivalOrder ==
    [][\A f \in fetching :
          (/\ M3u8Key(f.channelId, f.path) \in DOMAIN tracker
           /\ M3u8FetchReturn(f, TRUE, ContentSeg12, TRUE))
          => /\ tracker'[M3u8Key(f.channelId, f.path)].rev
                   = tracker[M3u8Key(f.channelId, f.path)].rev
             /\ MapKeys(tracker'[M3u8Key(f.channelId, f.path)].segments)
                   = MapKeys(tracker[M3u8Key(f.channelId, f.path)].segments)]_vars

\* C25: a segment upload leaves every complete revision
\* (allSegmentsReceived) exactly as it is, with its segments, counters,
\* arrival intervals, last arrival time and timer handle, and is answered
\* 200.
C25_UploadLeavesCompleteRevision ==
    [][\A channelId \in Channels, style \in Styles, p \in SegmentPaths, size \in Sizes :
          SegmentHandlePut(channelId, style, p, TRUE, size, TRUE)
             => /\ response' = 200
                /\ \A k \in DOMAIN tracker :
                      tracker[k].allSegmentsReceived
                         => k \in DOMAIN tracker' /\ tracker'[k] = tracker[k]]_vars

\* The only revision is complete with every segment received before now,
\* and a file that is none of its segments was stored with answer 200.
C25_Witness ==
    /\ response = 200
    /\ \A k \in DOMAIN tracker :
          /\ tracker[k].allSegmentsReceived
          /\ MissingCount(tracker[k]) = 0
          /\ tracker[k].lastSegmentReceivedTime < clock
    /\ \E k \in DOMAIN tracker, p \in SegmentPaths :
          /\ <<tracker[k].channelId, p>> \in storage
          /\ p \notin MapKeys(tracker[k].segments)

\* The revision of key k was evaluated by its deadline and found segments
\* missing: it is not complete, holds no timer and has a segment that is
\* unreceived and marked as timed out.
TimedOut(k) ==
    /\ k \in DOMAIN tracker
    /\ ~tracker[k].allSegmentsReceived
    /\ tracker[k].timeoutId = undefined
    /\ \E i \in 1..Len(tracker[k].segments) :
          tracker[k].segments[i].timeoutOccurred /\ ~tracker[k].segments[i].received

\* C26: a timed-out revision is final: as long as no new revision replaces
\* it, no step marks one of its timed-out segments as received and the
\* revision does not become complete.
C26_TimedOutRevisionIsTerminal ==
    [][\A k \in DOMAIN tracker :
          (TimedOut(k) /\ k \in DOMAIN tracker' /\ tracker'[k].rev = tracker[k].rev)
          => /\ ~tracker'[k].allSegmentsReceived
             /\ \A i \in 1..Len(tracker[k].segments) :
                   (tracker[k].segments[i].timeoutOccurred /\ ~tracker[k].segments[i].received)
                      => ~tracker'[k].segments[i].received]_vars

(***************************************************************************)
(* ReportGenerator.calculateStreamMetrics: the arrival jitter.  Numbers    *)
(* that need no longer be integers are fractions [num, den]; the jitter,   *)
(* a square root, is given by its square.                                  *)
(***************************************************************************)
RECURSIVE SumSeq(_)
SumSeq(xs) == IF xs = <<>> THEN 0 ELSE Head(xs) + SumSeq(Tail(xs))

\* reduce((sum, interval) => sum + (interval - mean)^2, 0), mean = num / den,
\* as a multiple of 1 / den^2
RECURSIVE SumSquaredDifferences(_, _, _)
SumSquaredDifferences(xs, num, den) ==
    IF xs = <<>> THEN 0
    ELSE (Head(xs) * den - num) * (Head(xs) * den - num)
            + SumSquaredDifferences(Tail(xs), num, den)

\* The variance divided by the number of intervals less one.
segmentArrivalJitterSquaredSample(arrivalIntervals) ==
    IF Len(arrivalIntervals) > 1
    THEN [num |-> SumSquaredDifferences(arrivalIntervals, SumSeq(arrivalIntervals),
                                        Len(arrivalIntervals)),
          den |-> Len(arrivalIntervals) * Len(arrivalIntervals) * (Len(arrivalIntervals) - 1)]
    ELSE [num |-> 0, den |-> 1]

\* segmentArrivalJitter * segmentArrivalJitter
segmentArrivalJitterSquared(arrivalIntervals) ==
    IF Len(arrivalIntervals) > 1
    THEN [num |-> SumSquaredDifferences(arrivalIntervals, SumSeq(arrivalIntervals),
                                        Len(arrivalIntervals)),
          den |-> Len(arrivalIntervals) * Len(arrivalIntervals) * Len(arrivalIntervals)]
    ELSE [num |-> 0, den |-> 1]

\* GET /report: the report is computed from the tracker and sent.
GetReport ==
    /\ response' = 200
    /\ running
    /\ UNCHANGED <<tracker, timers, storage, clock, fetching, running>>

(***************************************************************************)
(* SpecReport: one live playlist, uploads under its key up to the cap of   *)
(* the arrival intervals, and reports.                                     *)
(***************************************************************************)
NextReport ==
    \/ Tick
    \/ Ingest({LivePlaylistPath}, {ContentSeg12})
    \/ UploadUpTo({"live"}, MaxLongIntervals)
    \/ Fire
    \/ GetReport

SpecReport == Init /\ [][NextReport]_vars

RECURSIVE SumOfSquares(_)
SumOfSquares(xs) == IF xs = <<>> THEN 0 ELSE Head(xs) * Head(xs) + SumOfSquares(Tail(xs))

\* The square of the population standard deviation of xs, times n^2:
\* n * sum(x^2) - sum(x)^2.
PopulationVarianceTimesSquare(xs) == Len(xs) * SumOfSquares(xs) - SumSeq(xs) * SumSeq(xs)

\* C27: the jitter reported for a key is 0 when fewer than two arrival
\* intervals are recorded, and otherwise the population standard deviation
\* of the recorded intervals (the squares are compared, as fractions).
C27_JitterIsPopulationDeviation ==
    \A k \in DOMAIN tracker :
        IF Len(tracker[k].segmentArrivalIntervals) < 2
        THEN segmentArrivalJitterSquared(tracker[k].segmentArrivalIntervals).num = 0
        ELSE segmentArrivalJitterSquared(tracker[k].segmentArrivalIntervals).num
                * Len(tracker[k].segmentArrivalIntervals) * Len(tracker[k].segmentArrivalIntervals)
             = PopulationVarianceTimesSquare(tracker[k].segmentArrivalIntervals)
                * segmentArrivalJitterSquared(tracker[k].segmentArrivalIntervals).den

\* A report was sent for a key with three or more intervals that are not
\* all equal, so that its jitter is not 0.
C27_Witness ==
    /\ response = 200
    /\ \E k \in DOMAIN tracker :
          /\ Len(tracker[k].segmentArrivalIntervals) >= 3
          /\ segmentArrivalJitterSquared(tracker[k].segmentArrivalIntervals).num > 0

(***************************************************************************)
(* The handlers of SIGINT and SIGTERM: the cleanup interval is stopped and *)
(* process.exit(0) ends the process.  With the process its event loop is   *)
(* gone: no pending timer and no suspended ingest is left.  tracker keeps  *)
(* the last content of the memory, which nothing reads any more.           *)
(***************************************************************************)
\* The handler that returns without ending the event loop.
ShutdownKeepsTimers ==
    /\ running
    /\ running' = FALSE
    /\ UNCHANGED <<tracker, timers, storage, clock, response, fetching>>

Shutdown ==
    /\ running
    /\ running' = FALSE
    /\ timers' = {}
    /\ fetching' = {}
    /\ UNCHANGED <<tracker, storage, clock, response>>

(***************************************************************************)
(* SpecShutdown: one live playlist, uploads, time, timers and the end of   *)
(* the process.                                                            *)
(***************************************************************************)
NextShutdown ==
    \/ Tick
    \/ Ingest({LivePlaylistPath}, {ContentSeg12, ContentSeg2})
    \/ Upload({"live"})
    \/ Fire
    \/ Shutdown

SpecShutdown == Init /\ [][NextShutdown]_vars

LiveSegPath == [style |-> "live", rest |-> <<"s", "e", "g">> \o ExtM3u8]

TiesPaths == {LivePlaylistPath, LiveSegPath}

NextTies ==
    \/ Tick
    \/ Ingest(TiesPaths, {ContentSeg2})
    \/ Upload({"live"})
    \/ Fire

SpecTies == Init /\ [][NextTies]_vars

\* The key among ks whose revision was ingested after those of all others.
MostRecentlyIngested(ks) ==
    { m \in ks : \A k \in ks \ {m} : tracker[m].receivedAt > tracker[k].receivedAt }

\* C29: when two or more revisions of the channel that are not complete
\* expect the uploaded name, unreceived, the upload marks the expectation
\* of the one ingested most recently and leaves the others as they are.
C29_TieGoesToMostRecentRevision ==
    [][\A channelId \in Channels, style \in Styles, p \in SegmentPaths, size \in Sizes :
          (/\ Cardinality(OpenExpecting(channelId, p)) >= 2
           /\ SegmentHandlePut(channelId, style, p, TRUE, size, TRUE))
          => \A m \in MostRecentlyIngested(OpenExpecting(channelId, p)) :
                /\ BecomesReceived(m, p)
                /\ \A k \in OpenExpecting(channelId, p) \ {m} : tracker'[k] = tracker[k]]_vars

(***************************************************************************)
(* SpecPriority: two MediaPackage v2 playlists of one channel, under the   *)
(* default key and under the key seg, that list seg_1.ts or seg_2.ts, and  *)
(* uploads of both names through the v2 endpoint.                          *)
(***************************************************************************)
\* /in/v2/<channelId>/<redundantId>/seg.m3u8
V2SegPath == [style |-> "v2", rest |-> <<"s", "e", "g">> \o ExtM3u8]

PriorityPaths == {V2ChannelPath, V2SegPath}

ContentSeg1 == <<LineExtM3u, LineTargetDuration1, LineExtInf1, Seg1>>

NextPriority ==
    \/ Tick
    \/ Ingest(PriorityPaths, {ContentSeg1, ContentSeg2})
    \/ Upload({"v2"})
    \/ Fire

SpecPriority == Init /\ [][NextPriority]_vars

\* The expectations of key k that the step marks as received.
MarkedBy(k) ==
    { tracker[k].segments[i].key : i \in
        { j \in 1..Len(tracker[k].segments) :
            /\ ~tracker[k].segments[j].received
            /\ k \in DOMAIN tracker'
            /\ \E n \in 1..Len(tracker'[k].segments) :
                  /\ tracker'[k].segments[n].key = tracker[k].segments[j].key
                  /\ tracker'[k].segments[n].received } }

\* C30: when a revision of the channel that is not complete expects the
\* uploaded name itself, unreceived, the upload marks that name in such a
\* revision and marks no expectation of another name in any revision.
C30_ExactMatchBeforeHeuristic ==
    [][\A channelId \in Channels, style \in Styles, p \in SegmentPaths, size \in Sizes :
          (/\ OpenExpecting(channelId, p) # {}
           /\ SegmentHandlePut(channelId, style, p, TRUE, size, TRUE))
          => /\ \E k \in OpenExpecting(channelId, p) : p \in MarkedBy(k)
             /\ \A k \in DOMAIN tracker : MarkedBy(k) \subseteq {p}]_vars

(***************************************************************************)
(* SpecMasterDuration: master playlists without target-duration            *)
(* declaration, with the declaration before the variant entry and with the *)
(* declaration after it.                                                   *)
(***************************************************************************)
ContentMasterDeclFirst == <<LineExtM3u, LineTargetDuration1, LineStreamInf, VariantLow>>

ContentMasterDeclLast == <<LineExtM3u, LineStreamInf, VariantLow, LineTargetDuration1>>

DurationContents == {ContentMasterOne, ContentMasterDeclFirst, ContentMasterDeclLast}

NextMasterDuration ==
    \/ Tick
    \/ Ingest({LivePlaylistPath}, DurationContents)
    \/ Upload({"live"})
    \/ Fire

SpecMasterDuration == Init /\ [][NextMasterDuration]_vars

\* The lines of the text that declare the target duration.
TargetDurationLines(content) ==
    { i \in 1..Len(content) : StartsWith(Trim(content[i]), TagTargetDuration) }

\* The target duration of the playlist: the value of its last declaration,
\* or the default when it has none.
PlaylistTargetDuration(content) ==
    IF TargetDurationLines(content) = {}
    THEN DefaultTargetDuration
    ELSE LET last == CHOOSE i \in TargetDurationLines(content) :
                         \A j \in TargetDurationLines(content) : j <= i
         IN  ParseInt(Split(Trim(content[last]), ":")[2])

\* C31: the revision stored by the ingest of a master playlist has the
\* target duration of the playlist (the declared value, or the default
\* without declaration), and each of its variant segments has that
\* duration, wherever the declaration stands in the text.
C31_VariantDurationIsTargetDuration ==
    [][\A channelId \in Channels, content \in DurationContents :
          (/\ Variants(content) # {}
           /\ M3u8HandlePut(channelId, LivePlaylistPath, TRUE, content, TRUE))
          => /\ M3u8Key(channelId, LivePlaylistPath) \in DOMAIN tracker'
             /\ tracker'[M3u8Key(channelId, LivePlaylistPath)].targetDuration
                   = PlaylistTargetDuration(content)
             /\ \A i \in Variants(content) :
                   \E j \in 1..Len(tracker'[M3u8Key(channelId, LivePlaylistPath)].segments) :
                      /\ tracker'[M3u8Key(channelId, LivePlaylistPath)].segments[j].key
                            = Trim(content[i + 1])
                      /\ tracker'[M3u8Key(channelId, LivePlaylistPath)].segments[j].duration
                            = PlaylistTargetDuration(content)]_vars

\* Some segment of the revision of key k has been received.
AnyReceived(trackingInfo) ==
    \E i \in 1..Len(trackingInfo.segments) : trackingInfo.segments[i].received

\* The step records a segment reception for key k at the present time.
ReceivesSegment(k) ==
    \E i \in 1..Len(tracker'[k].segments) :
        /\ tracker'[k].segments[i].received
        /\ tracker'[k].segments[i].receivedAt = clock

\* C32: a tracking key is created with lastSegmentReceivedTime 0; only a
\* segment reception changes lastSegmentReceivedTime, to the time of the
\* reception; the first reception of a key appends no arrival interval, and
\* an appended interval is the time since the previous reception.
C32_IntervalsAreGapsBetweenReceptions ==
    [][/\ \A k \in DOMAIN tracker' \ DOMAIN tracker :
             /\ tracker'[k].lastSegmentReceivedTime = 0
             /\ tracker'[k].segmentArrivalIntervals = <<>>
       /\ \A k \in DOMAIN tracker' \cap DOMAIN tracker :
             /\ tracker'[k].lastSegmentReceivedTime # tracker[k].lastSegmentReceivedTime
                   => /\ ReceivesSegment(k)
                      /\ tracker'[k].lastSegmentReceivedTime = clock
             /\ (/\ tracker[k].rev = 1
                 /\ ~AnyReceived(tracker[k])
                 /\ tracker[k].segmentArrivalIntervals = <<>>)
                   => tracker'[k].segmentArrivalIntervals = <<>>
             /\ tracker'[k].segmentArrivalIntervals # tracker[k].segmentArrivalIntervals
                   => /\ ReceivesSegment(k)
                      /\ tracker[k].lastSegmentReceivedTime > 0
                      /\ tracker'[k].segmentArrivalIntervals
                            = PushInterval(tracker[k].segmentArrivalIntervals,
                                           clock - tracker[k].lastSegmentReceivedTime)]_vars

\* C33: the evaluation of a fired deadline that finds every segment of the
\* revision received, the revision not yet marked complete, counts no
\* timeout (timeoutEvents and every timeoutOccurred flag unchanged), sets
\* allSegmentsReceived, resets successiveTimeouts to 0 and leaves the key
\* without handle and without pending timer; after every firing the handle
\* of the key is unset.
C33_FiringAfterLateReceptionIsSuccess ==
    [][\A t \in timers :
          (TimerFire(t) /\ t.key \in DOMAIN tracker)
          => /\ tracker'[t.key].timeoutId = undefined
             /\ (~tracker[t.key].allSegmentsReceived /\ AllReceived(tracker[t.key].segments))
                   => /\ tracker'[t.key].timeoutEvents = tracker[t.key].timeoutEvents
                      /\ tracker'[t.key].segments = tracker[t.key].segments
                      /\ tracker'[t.key].allSegmentsReceived
                      /\ tracker'[t.key].successiveTimeouts = 0
                      /\ tracker'[t.key].maxSuccessiveTimeouts
                            = tracker[t.key].maxSuccessiveTimeouts
                      /\ TimersOf(timers', t.key) = {}]_vars

\* A second revision whose only segment was received before the revision
\* was ingested, and no reception since: the revision started incomplete
\* with its deadline armed, and the fired evaluation marked it complete.
C33_Witness ==
    \E k \in DOMAIN tracker :
        /\ tracker[k].rev = 2
        /\ tracker[k].allSegmentsReceived
        /\ tracker[k].timeoutId = undefined
        /\ tracker[k].successiveTimeouts = 0
        /\ tracker[k].timeoutEvents = 0
        /\ TimersOf(timers, k) = {}
        /\ Len(tracker[k].segments) = 1
        /\ tracker[k].segments[1].received
        /\ ~tracker[k].segments[1].timeoutOccurred
        /\ tracker[k].segments[1].receivedAt < tracker[k].receivedAt
        /\ tracker[k].lastSegmentReceivedTime < tracker[k].receivedAt
        /\ clock > tracker[k].receivedAt

(***************************************************************************)
(* SpecWindow: one live playlist whose window moves: the ingested texts    *)
(* advertise seg_1.ts and seg_2.ts, or seg_2.ts alone, over three          *)
(* revisions, so that an identity leaves the playlist and returns.         *)
(***************************************************************************)
MaxWindowRevisions == 3

NextWindow ==
    \/ TickUntilDue
    \/ IngestUpTo({LivePlaylistPath}, FairContents, MaxWindowRevisions)
    \/ Upload({"live"})
    \/ Fire

SpecWindow == Init /\ [][NextWindow]_vars

\* The segment identities that the text advertises.
Identities(content) ==
    { LastPathComponent(Trim(content[i + 1])) : i \in Directives(content) }

\* C34: the revision stored by a playlist ingest holds exactly the
\* identities of the ingested playlist, one segment each; an identity that
\* the replaced revision did not hold, whether it never was advertised or
\* was dropped by an earlier ingest, starts unreceived, without reception
\* time, size or timeout mark, first seen at the time of this ingest.
C34_RevisionHoldsExactlyAdvertised ==
    [][\A channelId \in Channels, content \in FairContents :
          M3u8HandlePut(channelId, LivePlaylistPath, TRUE, content, TRUE)
          => /\ M3u8Key(channelId, LivePlaylistPath) \in DOMAIN tracker'
             /\ MapKeys(tracker'[M3u8Key(channelId, LivePlaylistPath)].segments)
                   = Identities(content)
             /\ Len(tracker'[M3u8Key(channelId, LivePlaylistPath)].segments)
                   = Cardinality(Identities(content))
             /\ \A j \in 1..Len(tracker'[M3u8Key(channelId, LivePlaylistPath)].segments) :
                   (\/ M3u8Key(channelId, LivePlaylistPath) \notin DOMAIN tracker
                    \/ ~MapHas(tracker[M3u8Key(channelId, LivePlaylistPath)].segments,
                               tracker'[M3u8Key(channelId, LivePlaylistPath)].segments[j].key))
                   => /\ ~tracker'[M3u8Key(channelId, LivePlaylistPath)].segments[j].received
                      /\ tracker'[M3u8Key(channelId, LivePlaylistPath)].segments[j].receivedAt
                            = undefined
                      /\ tracker'[M3u8Key(channelId, LivePlaylistPath)].segments[j].size
                            = undefined
                      /\ ~tracker'[M3u8Key(channelId, LivePlaylistPath)].segments[j].timeoutOccurred
                      /\ tracker'[M3u8Key(channelId, LivePlaylistPath)].segments[j].firstSeenAt
                            = clock]_vars

\* The third revision, ingested at times 1, 2 and 3.  seg_2.ts has been
\* advertised since time 1 and is unreceived, and one reception was
\* recorded at time 1: seg_1.ts was received in the first revision.  The
\* second revision did not hold seg_1.ts, and the third advertises it
\* again, unreceived and first seen at time 3, with its file stored.
C34_Witness ==
    \E channelId \in Channels :
        /\ M3u8Key(channelId, LivePlaylistPath) \in DOMAIN tracker
        /\ <<channelId, Seg1>> \in storage
        /\ tracker[M3u8Key(channelId, LivePlaylistPath)].rev = 3
        /\ tracker[M3u8Key(channelId, LivePlaylistPath)].previousM3u8Updates = <<3, 2, 1>>
        /\ tracker[M3u8Key(channelId, LivePlaylistPath)].segmentArrivalIntervals = <<0>>
        /\ tracker[M3u8Key(channelId, LivePlaylistPath)].lastSegmentReceivedTime = 1
        /\ \E i, j \in 1..Len(tracker[M3u8Key(channelId, LivePlaylistPath)].segments) :
              /\ tracker[M3u8Key(channelId, LivePlaylistPath)].segments[i].key = Seg1
              /\ ~tracker[M3u8Key(channelId, LivePlaylistPath)].segments[i].received
              /\ tracker[M3u8Key(channelId, LivePlaylistPath)].segments[i].firstSeenAt = 3
              /\ tracker[M3u8Key(channelId, LivePlaylistPath)].segments[j].key = Seg2
              /\ ~tracker[M3u8Key(channelId, LivePlaylistPath)].segments[j].received
              /\ tracker[M3u8Key(channelId, LivePlaylistPath)].segments[j].firstSeenAt = 1

(***************************************************************************)
(* SpecChannels: channel c1 with the default playlist and the playlist     *)
(* main, channel c2 with the default playlist, ingests that succeed and    *)
(* that fail, and uploads of seg_2.ts to channel c1.                       *)
(***************************************************************************)
TwoChannels == {"c1", "c2"}

IngestOn(channels, paths, contents) ==
    \E channelId \in channels, path \in paths, content \in contents :
        /\ CanIngest(channelId, path)
        /\ M3u8HandlePut(channelId, path, TRUE, content, TRUE)

IngestFailsOn(channels, paths, contents) ==
    \E channelId \in channels, path \in paths, content \in contents, hasBody \in BOOLEAN :
        M3u8HandlePut(channelId, path, hasBody, content, FALSE)

UploadOn(channels, styles, names) ==
    \E channelId \in channels, style \in styles, p \in names, size \in Sizes :
        /\ CanUpload
        /\ SegmentHandlePut(channelId, style, p, TRUE, size, TRUE)

\* A text that parses and a text on which the parser throws.
ChannelsContents == {ContentSeg2, ContentCutMaster}

NextChannels ==
    \/ Tick
    \/ IngestOn({"c1"}, KeysPaths, ChannelsContents)
    \/ IngestOn({"c2"}, {LivePlaylistPath}, ChannelsContents)
    \/ IngestFailsOn(TwoChannels, KeysPaths, {ContentSeg2})
    \/ UploadOn({"c1"}, {"live"}, {Seg2})
    \/ Fire

SpecChannels == Init /\ [][NextChannels]_vars

\* The revision of key k and the timers pending for it are left as they are.
KeyUnchanged(k) ==
    /\ k \in DOMAIN tracker'
    /\ tracker'[k] = tracker[k]
    /\ TimersOf(timers', k) = TimersOf(timers, k)

\* C35: a segment upload to a channel leaves every revision, with its
\* counters, and every pending deadline of the other channels as they are;
\* a playlist ingest for a tracking key, answered 200, 400 or 500, leaves
\* the revision and the pending deadline of every other tracking key as
\* they are and creates no other key.  A step that changes neither the
\* tracker nor the timers changes no key.
C35_OperationsIsolatedPerKey ==
    [][(tracker' # tracker \/ timers' # timers)
       => /\ \A channelId \in TwoChannels, style \in Styles, p \in SegmentPaths,
                hasBody \in BOOLEAN, writeOk \in BOOLEAN :
                SegmentHandlePut(channelId, style, p, hasBody, 1, writeOk)
                   => /\ \A k \in DOMAIN tracker : k[1] # channelId => KeyUnchanged(k)
                      /\ \A k \in DOMAIN tracker' : k[1] # channelId => k \in DOMAIN tracker
          /\ \A channelId \in TwoChannels, path \in KeysPaths, content \in ChannelsContents,
                hasBody \in BOOLEAN, writeOk \in BOOLEAN :
                M3u8HandlePut(channelId, path, hasBody, content, writeOk)
                   => /\ \A k \in DOMAIN tracker :
                            k # M3u8Key(channelId, path) => KeyUnchanged(k)
                      /\ DOMAIN tracker' \subseteq
                            DOMAIN tracker \cup {M3u8Key(channelId, path)}]_vars

\* The default playlist of channel c1 has received seg_2.ts and has no
\* timer; the playlist main of c1 and the default playlist of channel c2
\* expect seg_2.ts, unreceived, with their deadlines armed, after a failed
\* ingest answered 500.
C35_Witness ==
    /\ response = 500
    /\ M3u8Key("c1", LivePlaylistPath) \in DOMAIN tracker
    /\ tracker[M3u8Key("c1", LivePlaylistPath)].allSegmentsReceived
    /\ TimersOf(timers, M3u8Key("c1", LivePlaylistPath)) = {}
    /\ <<"c1", Seg2>> \in storage
    /\ M3u8Key("c1", LiveMainPath) \in DOMAIN tracker
    /\ M3u8Key("c2", LivePlaylistPath) \in DOMAIN tracker
    /\ ~AnyReceived(tracker[M3u8Key("c1", LiveMainPath)])
    /\ ~AnyReceived(tracker[M3u8Key("c2", LivePlaylistPath)])
    /\ MapHas(tracker[M3u8Key("c2", LivePlaylistPath)].segments, Seg2)
    /\ TimersOf(timers, M3u8Key("c1", LiveMainPath)) # {}
    /\ TimersOf(timers, M3u8Key("c2", LivePlaylistPath)) # {}

\* C36: in every reachable state a revision whose allSegmentsReceived flag
\* is set holds no unreceived segment.
C36_CompleteFlagImpliesAllReceived ==
    \A k \in DOMAIN tracker :
        tracker[k].allSegmentsReceived => AllReceived(tracker[k].segments)

\* A revision of two segments is marked complete, both segments received
\* by uploads at different times.
C36_Witness ==
    \E k \in DOMAIN tracker :
        /\ tracker[k].allSegmentsReceived
        /\ Len(tracker[k].segments) = 2
        /\ tracker[k].segments[1].received
        /\ tracker[k].segments[2].received
        /\ tracker[k].segments[1].receivedAt # tracker[k].segments[2].receivedAt

\* C37: in every reachable state a revision whose allSegmentsReceived flag
\* is set has no handle and no pending timer, so that no evaluation runs
\* against a revision that is marked complete.
C37_CompleteRevisionHasNoDeadline ==
    \A k \in DOMAIN tracker :
        tracker[k].allSegmentsReceived
            => /\ tracker[k].timeoutId = undefined
               /\ TimersOf(timers, k) = {}

\* A revision completed by an upload before its deadline was due: the
\* timer armed by the ingest was cancelled, not fired.
C37_Witness ==
    \E k \in DOMAIN tracker :
        /\ tracker[k].allSegmentsReceived
        /\ Len(tracker[k].segments) = 2
        /\ AllReceived(tracker[k].segments)
        /\ clock < tracker[k].receivedAt + TimeoutDelay(tracker[k])
        /\ tracker[k].timeoutEvents = 0
        /\ tracker[k].timeoutId = undefined
        /\ TimersOf(timers, k) = {}

\* C38: in every reachable state and for every tracking key,
\* 0 <= successiveTimeouts <= maxSuccessiveTimeouts <= timeoutEvents; and
\* no step removes a key or lowers its timeoutEvents, the replacement of
\* its revision by an ingest included.
C38_CountersOrderedAndEventsMonotonic ==
    /\ [](\A k \in DOMAIN tracker :
             /\ 0 <= tracker[k].successiveTimeouts
             /\ tracker[k].successiveTimeouts <= tracker[k].maxSuccessiveTimeouts
             /\ tracker[k].maxSuccessiveTimeouts <= tracker[k].timeoutEvents)
    /\ [][\A k \in DOMAIN tracker :
             /\ k \in DOMAIN tracker'
             /\ tracker'[k].timeoutEvents >= tracker[k].timeoutEvents]_vars

\* A second revision whose counters are all different: a streak of one
\* after a reception reset the streak of two, and three timeouts in all.
C38_Witness ==
    \E k \in DOMAIN tracker :
        /\ tracker[k].rev = 2
        /\ tracker[k].successiveTimeouts = 1
        /\ tracker[k].maxSuccessiveTimeouts = 2
        /\ tracker[k].timeoutEvents = 3

(***************************************************************************)
(* SpecSuspended: the first revision of the key is ingested with the       *)
(* playlist as body; an ingest by URL follows and is suspended in its      *)
(* fetch; segments are uploaded only while a fetch is pending, and the     *)
(* fetch returns a playlist.  Every reception is therefore recorded while  *)
(* the ingest that stores the next revision is suspended.                  *)
(***************************************************************************)
IngestFirst(paths, contents) ==
    \E channelId \in Channels, path \in paths, content \in contents :
        /\ M3u8Key(channelId, path) \notin DOMAIN tracker
        /\ M3u8HandlePut(channelId, path, TRUE, content, TRUE)

IngestUrlTracked(paths) ==
    \E channelId \in Channels, path \in paths :
        /\ M3u8Key(channelId, path) \in DOMAIN tracker
        /\ CanIngest(channelId, path)
        /\ Cardinality(fetching) < MaxInflight
        /\ M3u8HandlePutUrl(channelId, path)

UploadDuringFetch(styles) ==
    \E f \in fetching, style \in styles, p \in SegmentPaths, size \in Sizes :
        /\ CanUpload
        /\ SegmentHandlePut(f.channelId, style, p, TRUE, size, TRUE)

FetchReturnOk(contents) ==
    \E f \in fetching, content \in contents :
        M3u8FetchReturn(f, TRUE, content, TRUE)

NextSuspended ==
    \/ TickUntilDue
    \/ IngestFirst({LivePlaylistPath}, FairContents)
    \/ IngestUrlTracked({LivePlaylistPath})
    \/ UploadDuringFetch({"live"})
    \/ FetchReturnOk(FairContents)
    \/ Fire

SpecSuspended == Init /\ [][NextSuspended]_vars

\* C39: when the fetch of a suspended ingest returns a playlist, the ingest
\* replaces the revision that is stored at that moment: every segment of it
\* that is received and still advertised is received in the new revision,
\* with its reception time and size, the reception statistics of the key
\* are carried over, the timer of the replaced revision is cancelled and
\* the timer of the new revision is the only one pending for the key.
C39_ReceptionDuringFetchIsCarried ==
    [][\A f \in fetching, content \in FairContents :
          (/\ M3u8FetchReturn(f, TRUE, content, TRUE)
           /\ M3u8Key(f.channelId, f.path) \in DOMAIN tracker)
          => /\ M3u8Key(f.channelId, f.path) \in DOMAIN tracker'
             /\ tracker'[M3u8Key(f.channelId, f.path)].rev
                   = tracker[M3u8Key(f.channelId, f.path)].rev + 1
             /\ \A i \in 1..Len(tracker[M3u8Key(f.channelId, f.path)].segments) :
                   (/\ tracker[M3u8Key(f.channelId, f.path)].segments[i].received
                    /\ tracker[M3u8Key(f.channelId, f.path)].segments[i].key
                          \in Identities(content))
                   => \E j \in 1..Len(tracker'[M3u8Key(f.channelId, f.path)].segments) :
                         /\ tracker'[M3u8Key(f.channelId, f.path)].segments[j].key
                               = tracker[M3u8Key(f.channelId, f.path)].segments[i].key
                         /\ tracker'[M3u8Key(f.channelId, f.path)].segments[j].received
                         /\ tracker'[M3u8Key(f.channelId, f.path)].segments[j].receivedAt
                               = tracker[M3u8Key(f.channelId, f.path)].segments[i].receivedAt
                         /\ tracker'[M3u8Key(f.channelId, f.path)].segments[j].size
                               = tracker[M3u8Key(f.channelId, f.path)].segments[i].size
             /\ tracker'[M3u8Key(f.channelId, f.path)].lastSegmentReceivedTime
                   = tracker[M3u8Key(f.channelId, f.path)].lastSegmentReceivedTime
             /\ tracker'[M3u8Key(f.channelId, f.path)].segmentArrivalIntervals
                   = tracker[M3u8Key(f.channelId, f.path)].segmentArrivalIntervals
             /\ \A t \in TimersOf(timers', M3u8Key(f.channelId, f.path)) :
                   /\ t.rev = tracker'[M3u8Key(f.channelId, f.path)].rev
                   /\ t.id = tracker'[M3u8Key(f.channelId, f.path)].timeoutId
             /\ Cardinality(TimersOf(timers', M3u8Key(f.channelId, f.path))) = 1]_vars

\* The second revision, stored at time 2 by the ingest that was suspended,
\* advertises seg_1.ts and seg_2.ts and holds seg_1.ts as received at
\* time 1, with its own timer pending.
C39_Witness ==
    \E k \in DOMAIN tracker :
        /\ fetching = {}
        /\ tracker[k].rev = 2
        /\ tracker[k].receivedAt = 2
        /\ Len(tracker[k].segments) = 2
        /\ \E i \in 1..2 :
              /\ tracker[k].segments[i].key = Seg1
              /\ tracker[k].segments[i].received
              /\ tracker[k].segments[i].receivedAt = 1
        /\ \E t \in timers : t.key = k /\ t.rev = 2 /\ t.id = tracker[k].timeoutId

\* The expectations that the step turns from unreceived to received: pairs
\* of a tracking key and a segment key.
NewlyReceived ==
    UNION { { <<k, name>> : name \in MarkedBy(k) } : k \in DOMAIN tracker }

\* C40: one segment upload turns at most one expectation of the whole
\* store from unreceived to received, also when two tracked playlists of
\* the channel expect the uploaded identity.
C40_UploadMarksAtMostOneExpectation ==
    [][\A channelId \in Channels, style \in Styles, p \in SegmentPaths :
          SegmentHandlePut(channelId, style, p, TRUE, 1, TRUE)
             => Cardinality(NewlyReceived) <= 1]_vars

\* Two first revisions, both ingested at time 1 and both expecting
\* seg_2.ts, neither evaluated yet: one holds seg_2.ts as received at
\* time 2, the other holds it unreceived.
C40_Witness ==
    \E k, other \in DOMAIN tracker :
        /\ k # other
        /\ tracker[k].rev = 1 /\ tracker[other].rev = 1
        /\ tracker[k].receivedAt = 1 /\ tracker[other].receivedAt = 1
        /\ tracker[k].timeoutEvents = 0 /\ tracker[other].timeoutEvents = 0
        /\ Len(tracker[k].segments) = 1 /\ Len(tracker[other].segments) = 1
        /\ tracker[k].segments[1].key = Seg2 /\ tracker[other].segments[1].key = Seg2
        /\ tracker[k].segments[1].received
        /\ tracker[k].segments[1].receivedAt = 2
        /\ <<tracker[k].channelId, Seg2>> \in storage
        /\ tracker[other].channelId = tracker[k].channelId
        /\ ~tracker[other].segments[1].received
        /\ ~tracker[other].allSegmentsReceived

====
